---------------------------- MODULE Spec2Model ----------------------------
(***************************************************************************)
(* Model of the uni-schedule application (src/src/App.tsx,                 *)
(* src/src/cloudSync.ts): the schedule store (slots, courses, entries),   *)
(* its local-storage persistence, the HTML backup export / import and the *)
(* cloud session (sign-in, load, save) of one browser client.             *)
(*                                                                         *)
(* Text is a sequence of one-character strings, ids and enum values are   *)
(* TLA+ strings, and untyped data (parsed JSON) is a tagged value          *)
(* [t |-> "str" | "num" | "arr" | "obj" | "null" | "undef", v |-> ...].    *)
(***************************************************************************)
EXTENDS Integers, Sequences, FiniteSets, TLC

(***************************************************************************)
(* Bounds of the model                                                     *)
(***************************************************************************)
\* how many ids uid() hands out in one run
MaxUid == 2
\* how many sessions a client starts in one run
MaxSessions == 1
\* how many rows the sessions screen gets to
MaxSlots == 2
\* longest list handed to the normalizers
MaxRawLen == 2

(***************************************************************************)
(* Sequences                                                               *)
(***************************************************************************)
MapSeq(s, F(_)) == [i \in 1..Len(s) |-> F(s[i])]

Range(s) == {s[i] : i \in 1..Len(s)}

\* Array.prototype.findIndex, 1-based; 0 when nothing matches
FindIndex(s, P(_)) ==
  IF \E i \in 1..Len(s) : P(s[i])
    THEN CHOOSE i \in 1..Len(s) : P(s[i]) /\ \A j \in 1..(i - 1) : ~P(s[j])
    ELSE 0

(***************************************************************************)
(* Text                                                                    *)
(***************************************************************************)
Digits == {"0", "1", "2", "3", "4", "5", "6", "7", "8", "9"}

RECURSIVE TrimStart(_)
TrimStart(s) == IF s # <<>> /\ Head(s) = " " THEN TrimStart(Tail(s)) ELSE s

RECURSIVE TrimEnd(_)
TrimEnd(s) ==
  IF s # <<>> /\ s[Len(s)] = " " THEN TrimEnd(SubSeq(s, 1, Len(s) - 1)) ELSE s

\* String.prototype.trim
Trim(s) == TrimEnd(TrimStart(s))

T0900 == <<"0", "9", ":", "0", "0">>
T1000 == <<"1", "0", ":", "0", "0">>
T1100 == <<"1", "1", ":", "0", "0">>
T1300 == <<"1", "3", ":", "0", "0">>
T1400 == <<"1", "4", ":", "0", "0">>
T1600 == <<"1", "6", ":", "0", "0">>
T1800 == <<"1", "8", ":", "0", "0">>
Dash == <<"-">>

(***************************************************************************)
(* Untyped (JSON) values                                                   *)
(***************************************************************************)
\* a string that is an id or an enum word
Str(x) == [t |-> "str", v |-> x]
\* a string of free text (a sequence of characters)
Txt(x) == [t |-> "str", v |-> x, chars |-> TRUE]
Num(n) == [t |-> "num", v |-> n]
Arr(s) == [t |-> "arr", v |-> s]
Obj(r) == [t |-> "obj", v |-> r]
Null == [t |-> "null"]
Undefined == [t |-> "undef"]

\* x.f on an untyped value
Field(x, f) == IF x.t = "obj" /\ f \in DOMAIN x.v THEN x.v[f] ELSE Undefined

\* typeof x.f === "string" ? x.f : dflt
StrOr(x, f, dflt) == IF Field(x, f).t = "str" THEN Field(x, f).v ELSE dflt

\* typeof x.f === "number" ? x.f : dflt
NumOr(x, f, dflt) == IF Field(x, f).t = "num" THEN Field(x, f).v ELSE dflt

\* x && typeof x === "object" (arrays are objects too)
IsObject(x) == x.t \in {"obj", "arr"}

(***************************************************************************)
(* Types and constants of App.tsx                                          *)
(***************************************************************************)
DAYS == <<"Mon", "Tue", "Wed", "Thu", "Fri">>

recomputeLabel(start, end) == start \o Dash \o end

DEFAULT_SLOTS ==
  << [id |-> "09-11", start |-> T0900, end |-> T1100, label |-> recomputeLabel(T0900, T1100)],
     [id |-> "11-13", start |-> T1100, end |-> T1300, label |-> recomputeLabel(T1100, T1300)],
     [id |-> "14-16", start |-> T1400, end |-> T1600, label |-> recomputeLabel(T1400, T1600)],
     [id |-> "16-18", start |-> T1600, end |-> T1800, label |-> recomputeLabel(T1600, T1800)] >>

SLOTS_KEY == "uni-schedule:slots:v1"
COURSES_KEY == "uni-schedule:courses:v1"
ENTRIES_KEY == "uni-schedule:entries:v1"
THEME_KEY == "uni-schedule:theme:v1"
EXPORT_SKIN_KEY == "uni-schedule:export-skin:v1"
LEGACY_ENTRY_KEYS == <<"uni-schedule:v3", "uni-schedule:v2", "uni-schedule:v1">>

\* the id uid() returns on its n-th call
uid(n) == "u" \o ToString(n)

isHHMM(x) ==
  /\ Len(x) = 5
  /\ \/ x[1] \in {"0", "1"} /\ x[2] \in Digits
     \/ x[1] = "2" /\ x[2] \in {"0", "1", "2", "3"}
  /\ x[3] = ":"
  /\ x[4] \in {"0", "1", "2", "3", "4", "5"}
  /\ x[5] \in Digits

\* reading a property of null or undefined raises a TypeError
Throws(x) == x.t \in {"null", "undef"}

\* the argument is an untyped value
isDay(x) == x.t = "str" /\ x.v \in {"Mon", "Tue", "Wed", "Thu", "Fri"}

isClassType(x) == x.t = "str" /\ x.v \in {"THEORY", "LAB"}

slotValid(x) ==
  /\ IsObject(x)
  /\ StrOr(x, "id", "") # ""
  /\ isHHMM(StrOr(x, "start", <<>>))
  /\ isHHMM(StrOr(x, "end", <<>>))

normalizeSlots(raw) ==
  IF raw.t # "arr" THEN <<>>
  ELSE LET conv(x) ==
             LET start == StrOr(x, "start", <<>>)
                 end == StrOr(x, "end", <<>>)
                 label == StrOr(x, "label", <<>>)
             IN [id |-> StrOr(x, "id", ""), start |-> start, end |-> end,
                 label |-> IF label # <<>> THEN label ELSE recomputeLabel(start, end)]
       IN MapSeq(SelectSeq(raw.v, slotValid), conv)

courseValid(x) ==
  /\ IsObject(x)
  /\ StrOr(x, "id", "") # ""
  /\ Trim(StrOr(x, "title", <<>>)) # <<>>

\* normalizeCourses without the check of the title
normalizeCoursesAnyTitle(raw, now) ==
  IF raw.t # "arr" THEN <<>>
  ELSE LET conv(x) ==
             [id |-> StrOr(x, "id", ""),
              title |-> Trim(StrOr(x, "title", <<>>)),
              defaultRoom |-> StrOr(x, "defaultRoom", <<>>),
              defaultProfessors |-> StrOr(x, "defaultProfessors", <<>>),
              courseUrl |-> StrOr(x, "courseUrl", <<>>),
              createdAt |-> NumOr(x, "createdAt", now)]
       IN MapSeq(SelectSeq(raw.v, LAMBDA x : IsObject(x) /\ StrOr(x, "id", "") # ""), conv)

normalizeCourses(raw, now) ==
  IF raw.t # "arr" THEN <<>>
  ELSE LET conv(x) ==
             [id |-> StrOr(x, "id", ""),
              title |-> Trim(StrOr(x, "title", <<>>)),
              defaultRoom |-> StrOr(x, "defaultRoom", <<>>),
              defaultProfessors |-> StrOr(x, "defaultProfessors", <<>>),
              courseUrl |-> StrOr(x, "courseUrl", <<>>),
              createdAt |-> NumOr(x, "createdAt", now)]
       IN MapSeq(SelectSeq(raw.v, courseValid), conv)

entryValid(x) ==
  /\ IsObject(x)
  /\ StrOr(x, "id", "") # ""
  /\ StrOr(x, "courseId", "") # ""
  /\ isDay(Field(x, "day"))
  /\ StrOr(x, "slotId", "") # ""
  /\ isClassType(Field(x, "classType"))

normalizeEntries(raw, now) ==
  IF raw.t # "arr" THEN <<>>
  ELSE LET conv(x) ==
             [id |-> StrOr(x, "id", ""),
              courseId |-> StrOr(x, "courseId", ""),
              day |-> Field(x, "day").v,
              slotId |-> StrOr(x, "slotId", ""),
              classType |-> Field(x, "classType").v,
              room |-> StrOr(x, "room", <<>>),
              professors |-> StrOr(x, "professors", <<>>),
              courseUrl |-> StrOr(x, "courseUrl", <<>>),
              createdAt |-> NumOr(x, "createdAt", now)]
       IN MapSeq(SelectSeq(raw.v, entryValid), conv)

\* a normalizer raises: it reads a property of null or undefined.  The loops
\* read the properties of x only behind `if (!x || typeof x !== "object") continue`
normalizeRaises(raw) ==
  /\ raw.t = "arr"
  /\ \E i \in 1..Len(raw.v) : IsObject(raw.v[i]) /\ Throws(raw.v[i])

(***************************************************************************)
(* JSON.stringify of the typed collections                                 *)
(***************************************************************************)
SlotJson(s) ==
  Obj([id |-> Str(s.id), start |-> Txt(s.start), end |-> Txt(s.end), label |-> Txt(s.label)])

CourseJson(c) ==
  Obj([id |-> Str(c.id), title |-> Txt(c.title), defaultRoom |-> Txt(c.defaultRoom),
       defaultProfessors |-> Txt(c.defaultProfessors), courseUrl |-> Txt(c.courseUrl),
       createdAt |-> Num(c.createdAt)])

EntryJson(e) ==
  Obj([id |-> Str(e.id), courseId |-> Str(e.courseId), day |-> Str(e.day),
       slotId |-> Str(e.slotId), classType |-> Str(e.classType), room |-> Txt(e.room),
       professors |-> Txt(e.professors), courseUrl |-> Txt(e.courseUrl),
       createdAt |-> Num(e.createdAt)])

SlotsJson(s) == Arr(MapSeq(s, SlotJson))
CoursesJson(s) == Arr(MapSeq(s, CourseJson))
EntriesJson(s) == Arr(MapSeq(s, EntryJson))

(***************************************************************************)
(* Browser storage.  A stored item is a text: the JSON text of a value    *)
(* ([k |-> "json", j |-> value]), a plain word ([k |-> "raw", s |-> word]) *)
(* or text that JSON.parse rejects ([k |-> "bad"]).                        *)
(***************************************************************************)
NoItem == [k |-> "none"]
BadText == [k |-> "bad"]
RawText(w) == [k |-> "raw", s |-> w]

\* JSON.stringify
JSONstringify(j) == [k |-> "json", j |-> j]

\* JSON.parse succeeds on this text
Parses(text) == text.k = "json"

\* value of JSON.parse when it succeeds
JSONparse(text) == text.j

getItem(ls, key) == IF key \in DOMAIN ls THEN ls[key] ELSE NoItem

setItem(ls, key, text) == [x \in DOMAIN ls \cup {key} |-> IF x = key THEN text ELSE ls[x]]

\* userId is "" when nobody is signed in: `${KEY}:${userId}` or KEY
ScopedKey(key, userId) == IF userId # "" THEN key \o ":" \o userId ELSE key

loadSlotsFromStorage(ls) ==
  LET raw == getItem(ls, SLOTS_KEY)
  IN IF raw = NoItem \/ ~Parses(raw) THEN [slots |-> DEFAULT_SLOTS, isFirstTime |-> TRUE]
     ELSE LET s == normalizeSlots(JSONparse(raw))
          IN IF Len(s) = 0 THEN [slots |-> DEFAULT_SLOTS, isFirstTime |-> TRUE]
             ELSE [slots |-> s, isFirstTime |-> FALSE]

loadCoursesFromStorage(ls, now) ==
  LET raw == getItem(ls, COURSES_KEY)
  IN IF raw = NoItem \/ ~Parses(raw) THEN <<>> ELSE normalizeCourses(JSONparse(raw), now)

loadEntriesFromStorage(ls, now) ==
  LET raw == getItem(ls, ENTRIES_KEY)
  IN IF raw = NoItem \/ ~Parses(raw) THEN <<>> ELSE normalizeEntries(JSONparse(raw), now)

(***************************************************************************)
(* String.prototype.localeCompare(_, "el") on the characters the model     *)
(* uses: primary order of the characters first (case ignored), lower case *)
(* before upper case on a tie.                                             *)
(***************************************************************************)
CollationOrder ==
  <<" ", "-", ":", "<", "0", "1", "2", "3", "4", "5", "6", "7", "8", "9", "a", "b", "c">>

Lower(c) == CASE c = "A" -> "a" [] c = "B" -> "b" [] c = "C" -> "c" [] OTHER -> c

Primary(c) == FindIndex(CollationOrder, LAMBDA x : x = Lower(c))

Tertiary(c) == IF c = Lower(c) THEN 0 ELSE 1

CollationKey(level, c) == IF level = "primary" THEN Primary(c) ELSE Tertiary(c)

RECURSIVE LexCompare(_, _, _)
\* negative, zero or positive, as a comparator returns
LexCompare(a, b, level) ==
  IF a = <<>> /\ b = <<>> THEN 0
  ELSE IF a = <<>> THEN -1
  ELSE IF b = <<>> THEN 1
  ELSE IF CollationKey(level, Head(a)) # CollationKey(level, Head(b))
    THEN CollationKey(level, Head(a)) - CollationKey(level, Head(b))
  ELSE LexCompare(Tail(a), Tail(b), level)

localeCompare(a, b) ==
  IF LexCompare(a, b, "primary") # 0 THEN LexCompare(a, b, "primary")
  ELSE LexCompare(a, b, "tertiary")

\* Array.prototype.sort with a comparator (stable): an element goes after the
\* elements that compare lower and after the equal ones that came before it
SortBy(s, Cmp(_, _)) ==
  LET pos(i) == 1 + Cardinality({j \in 1..Len(s) :
                      \/ Cmp(s[j], s[i]) < 0
                      \/ Cmp(s[j], s[i]) = 0 /\ j < i})
  IN [k \in 1..Len(s) |-> s[CHOOSE i \in 1..Len(s) : pos(i) = k]]

(***************************************************************************)
(* Legacy migration                                                        *)
(***************************************************************************)
RECURSIVE migrateRecordsCoursePerRecord(_, _, _)
\* the loop over the legacy records that derives a course from every record
migrateRecordsCoursePerRecord(data, acc, now) ==
  IF data = <<>> THEN acc
  ELSE
    LET x == Head(data)
        hasId == Field(x, "id").t = "str"
        idOld == IF hasId THEN Field(x, "id").v ELSE uid(acc.n + 1)
        n1 == IF hasId THEN acc.n ELSE acc.n + 1
        title == Trim(StrOr(x, "title", <<>>))
        day == Field(x, "day")
        classType == IF isClassType(Field(x, "classType")) THEN Field(x, "classType").v
                     ELSE "THEORY"
        slotId == IF Field(x, "slotId").t = "str" THEN Field(x, "slotId").v
                  ELSE StrOr(x, "slot", "")
        room == StrOr(x, "room", <<>>)
        professors == StrOr(x, "professors", <<>>)
        courseUrl == StrOr(x, "courseUrl", <<>>)
        createdAt == NumOr(x, "createdAt", now)
        known == FALSE
        course == IF known
                    THEN acc.map[FindIndex(acc.map, LAMBDA c : c.title = title)]
                    ELSE [id |-> uid(n1 + 1), title |-> title, defaultRoom |-> room,
                          defaultProfessors |-> professors, courseUrl |-> courseUrl,
                          createdAt |-> now]
        n2 == IF known THEN n1 ELSE n1 + 1
    IN IF ~IsObject(x) THEN migrateRecordsCoursePerRecord(Tail(data), acc, now)
       ELSE IF title = <<>> \/ ~isDay(day) \/ slotId = ""
         THEN migrateRecordsCoursePerRecord(Tail(data), [acc EXCEPT !.n = n1], now)
       ELSE migrateRecordsCoursePerRecord(Tail(data),
              [map |-> IF known THEN acc.map ELSE Append(acc.map, course),
               entries |-> Append(acc.entries,
                  [id |-> idOld, courseId |-> course.id, day |-> day.v, slotId |-> slotId,
                   classType |-> classType, room |-> room, professors |-> professors,
                   courseUrl |-> courseUrl, createdAt |-> createdAt]),
               n |-> n2], now)

RECURSIVE migrateRecords(_, _, _)
\* the loop over the legacy records: acc = [map, entries, n]; map holds the
\* derived courses in insertion order, n counts the uid() calls so far
migrateRecords(data, acc, now) ==
  IF data = <<>> THEN acc
  ELSE
    LET x == Head(data)
        hasId == Field(x, "id").t = "str"
        idOld == IF hasId THEN Field(x, "id").v ELSE uid(acc.n + 1)
        n1 == IF hasId THEN acc.n ELSE acc.n + 1
        title == Trim(StrOr(x, "title", <<>>))
        day == Field(x, "day")
        classType == IF isClassType(Field(x, "classType")) THEN Field(x, "classType").v
                     ELSE "THEORY"
        slotId == IF Field(x, "slotId").t = "str" THEN Field(x, "slotId").v
                  ELSE StrOr(x, "slot", "")
        room == StrOr(x, "room", <<>>)
        professors == StrOr(x, "professors", <<>>)
        courseUrl == StrOr(x, "courseUrl", <<>>)
        createdAt == NumOr(x, "createdAt", now)
        known == \E i \in 1..Len(acc.map) : acc.map[i].title = title
        course == IF known
                    THEN acc.map[FindIndex(acc.map, LAMBDA c : c.title = title)]
                    ELSE [id |-> uid(n1 + 1), title |-> title, defaultRoom |-> room,
                          defaultProfessors |-> professors, courseUrl |-> courseUrl,
                          createdAt |-> now]
        n2 == IF known THEN n1 ELSE n1 + 1
    IN IF ~IsObject(x) THEN migrateRecords(Tail(data), acc, now)
       ELSE IF title = <<>> \/ ~isDay(day) \/ slotId = ""
         THEN migrateRecords(Tail(data), [acc EXCEPT !.n = n1], now)
       ELSE migrateRecords(Tail(data),
              [map |-> IF known THEN acc.map ELSE Append(acc.map, course),
               entries |-> Append(acc.entries,
                  [id |-> idOld, courseId |-> course.id, day |-> day.v, slotId |-> slotId,
                   classType |-> classType, room |-> room, professors |-> professors,
                   courseUrl |-> courseUrl, createdAt |-> createdAt]),
               n |-> n2], now)

RECURSIVE migrateFromKeysUntilRecords(_, _, _, _, _)
\* the loop over LEGACY_ENTRY_KEYS that goes on to the next key when an array
\* gave no entry
migrateFromKeysUntilRecords(keys, ls, slots, n, now) ==
  IF keys = <<>> THEN [courses |-> <<>>, entries |-> <<>>, ls |-> ls, n |-> n, read |-> <<>>]
  ELSE
    LET raw == getItem(ls, Head(keys))
        next == migrateFromKeysUntilRecords(Tail(keys), ls, slots, n, now)
    IN IF raw = NoItem \/ ~Parses(raw) \/ JSONparse(raw).t # "arr"
         THEN [next EXCEPT !.read = <<Head(keys)>> \o @]
       ELSE
         LET acc == migrateRecords(JSONparse(raw).v,
                                   [map |-> <<>>, entries |-> <<>>, n |-> n], now)
             slotIds == {slots[i].id : i \in 1..Len(slots)}
             filtered == SelectSeq(acc.entries, LAMBDA e : e.slotId \in slotIds)
             courses == SortBy(acc.map, LAMBDA a, b : localeCompare(a.title, b.title))
         IN IF filtered = <<>> THEN [next EXCEPT !.read = <<Head(keys)>> \o @]
            ELSE [courses |-> courses, entries |-> filtered,
                  ls |-> setItem(setItem(ls, COURSES_KEY, JSONstringify(CoursesJson(courses))),
                                 ENTRIES_KEY, JSONstringify(EntriesJson(filtered))),
                  n |-> acc.n,
                  read |-> <<Head(keys)>>]

RECURSIVE migrateFromKeys(_, _, _, _, _)
\* the loop over LEGACY_ENTRY_KEYS; read lists the keys handed to
\* localStorage.getItem, in order
migrateFromKeys(keys, ls, slots, n, now) ==
  IF keys = <<>> THEN [courses |-> <<>>, entries |-> <<>>, ls |-> ls, n |-> n, read |-> <<>>]
  ELSE
    LET raw == getItem(ls, Head(keys))
        next == migrateFromKeys(Tail(keys), ls, slots, n, now)
    IN IF raw = NoItem \/ raw = RawText("") \/ ~Parses(raw) \/ JSONparse(raw).t # "arr"
         THEN [next EXCEPT !.read = <<Head(keys)>> \o @]
       ELSE
         LET acc == migrateRecords(JSONparse(raw).v,
                                   [map |-> <<>>, entries |-> <<>>, n |-> n], now)
             slotIds == {slots[i].id : i \in 1..Len(slots)}
             filtered == SelectSeq(acc.entries, LAMBDA e : e.slotId \in slotIds)
             courses == SortBy(acc.map, LAMBDA a, b : localeCompare(a.title, b.title))
         IN [courses |-> courses, entries |-> filtered,
             ls |-> setItem(setItem(ls, COURSES_KEY, JSONstringify(CoursesJson(courses))),
                            ENTRIES_KEY, JSONstringify(EntriesJson(filtered))),
             n |-> acc.n,
             read |-> <<Head(keys)>>]

\* migrateLegacyIfNeeded without the look at the current-format collections
migrateLegacyAlways(ls, slots, n, now) == migrateFromKeys(LEGACY_ENTRY_KEYS, ls, slots, n, now)

migrateLegacyIfNeeded(ls, slots, n, now) ==
  LET existingCourses == loadCoursesFromStorage(ls, now)
      existingEntries == loadEntriesFromStorage(ls, now)
  IN IF Len(existingCourses) > 0 \/ Len(existingEntries) > 0
       THEN [courses |-> existingCourses, entries |-> existingEntries, ls |-> ls, n |-> n,
             read |-> <<>>]
       ELSE migrateFromKeys(LEGACY_ENTRY_KEYS, ls, slots, n, now)

\* moveItemInsert without the shift of the insertion point past the removed item
moveItemInsertUnshifted(arr, fromIndex, insertIndex) ==
  LET item == arr[fromIndex + 1]
      copy == SubSeq(arr, 1, fromIndex) \o SubSeq(arr, fromIndex + 2, Len(arr))
      i2 == IF insertIndex < 0 THEN 0 ELSE insertIndex
      idx == IF i2 > Len(copy) THEN Len(copy) ELSE i2
  IN SubSeq(copy, 1, idx) \o <<item>> \o SubSeq(copy, idx + 1, Len(copy))

moveItemInsert(arr, fromIndex, insertIndex) ==
  \* indices are 0-based as in the source
  LET item == arr[fromIndex + 1]
      copy == SubSeq(arr, 1, fromIndex) \o SubSeq(arr, fromIndex + 2, Len(arr))
      i1 == IF fromIndex < insertIndex THEN insertIndex - 1 ELSE insertIndex
      i2 == IF i1 < 0 THEN 0 ELSE i1
      idx == IF i2 > Len(copy) THEN Len(copy) ELSE i2
  IN SubSeq(copy, 1, idx) \o <<item>> \o SubSeq(copy, idx + 1, Len(copy))

\* courseMap.get(id): the course stored under id (the last one with that id),
\* or NoCourse
NoCourse == [id |-> ""]
courseMapGet(courses, id) ==
  IF \E i \in 1..Len(courses) : courses[i].id = id
    THEN courses[CHOOSE i \in 1..Len(courses) :
                   courses[i].id = id /\ \A j \in (i + 1)..Len(courses) : courses[j].id # id]
    ELSE NoCourse

\* slotMap.get(`${day}__${slotId}`): the last entry of that cell, or NoEntry
NoEntry == [id |-> ""]
slotMapGet(entries, day, slotId) ==
  LET at == {i \in 1..Len(entries) : entries[i].day = day /\ entries[i].slotId = slotId}
  IN IF at = {} THEN NoEntry ELSE entries[CHOOSE i \in at : \A j \in at : j <= i]

\* dayOrder and slotOrder of groupByCourse (0-based; a slot id stored twice
\* counts at its last place, an unknown one after all the others)
dayOrder(d) == FindIndex(DAYS, LAMBDA x : x = d) - 1

slotOrder(slots_, slotId) ==
  IF \E i \in 1..Len(slots_) : slots_[i].id = slotId
    THEN (CHOOSE i \in 1..Len(slots_) :
            slots_[i].id = slotId /\ \A j \in (i + 1)..Len(slots_) : slots_[j].id # slotId) - 1
    ELSE 9999

\* the comparator of the sessions of a group
compareSessions(slots_, a, b) ==
  IF dayOrder(a.day) - dayOrder(b.day) # 0 THEN dayOrder(a.day) - dayOrder(b.day)
  ELSE slotOrder(slots_, a.slotId) - slotOrder(slots_, b.slotId)

\* the groups in the order the Map holds them (first entry of each course),
\* sessions being sorted or left in the order of the entries
groupsOf(entries_, courses_, slots_, sorted) ==
  LET known == SelectSeq(entries_, LAMBDA e : courseMapGet(courses_, e.courseId) # NoCourse)
      firsts == {k \in 1..Len(known) : \A j \in 1..(k - 1) : known[j].courseId # known[k].courseId}
      nth(n) == CHOOSE k \in firsts : Cardinality({j \in firsts : j < k}) = n - 1
      of(id) == SelectSeq(known, LAMBDA e : e.courseId = id)
      cmp(a, b) == compareSessions(slots_, a, b)
  IN [n \in 1..Cardinality(firsts) |->
        [course |-> courseMapGet(courses_, known[nth(n)].courseId),
         sessions |-> IF sorted THEN SortBy(of(known[nth(n)].courseId), cmp)
                      ELSE of(known[nth(n)].courseId)]]

\* groupByCourse that leaves the sessions in the order of the entries
groupByCourseUnsorted(entries_, courses_, slots_) ==
  LET cmp(a, b) == localeCompare(a.course.title, b.course.title)
  IN SortBy(groupsOf(entries_, courses_, slots_, FALSE), cmp)

groupByCourse(entries_, courses_, slots_) ==
  LET cmp(a, b) == localeCompare(a.course.title, b.course.title)
  IN SortBy(groupsOf(entries_, courses_, slots_, TRUE), cmp)

(***************************************************************************)
(* State of one client (the App component in one browser tab)              *)
(***************************************************************************)
VARIABLES
  cloudEnabled,      \* hasSupabaseConfig && !!supabase, fixed by the build
  slots, courses, entries,
  form,              \* the schedule form
  theme, exportSkin,
  showSlotsSetup, showCoursesSetup,
  authReady, userId, \* userId is "" when nobody is signed in (null)
  profile,
  authError,
  cloudBusy, cloudDirty, cloudLastSavedAt, cloudBanner,
  showMasterPanel, masterRows,
  hydratingRef,
  localStorage,
  uidCount,          \* ids handed out by uid() so far; also the clock of Date.now()
  calls,             \* backend requests of this client still awaited
  timers,            \* setTimeout callbacks not yet run
  due,               \* dependencies whose effects have not run yet
  (* the world outside the client *)
  db,                \* the hosted backend: schedules and profiles rows
  peer,              \* a second client of the same backend (another device)
  (* history *)
  producedBy,        \* who was signed in when slots/courses/entries were last set
  sessions,          \* how many sessions this client has started
  last               \* the last operation and its inputs

clientVars ==
  <<cloudEnabled, slots, courses, entries, form, theme, exportSkin, showSlotsSetup,
    showCoursesSetup, authReady, userId, profile, authError, cloudBusy, cloudDirty,
    cloudLastSavedAt, cloudBanner, showMasterPanel, masterRows, hydratingRef,
    localStorage, uidCount, calls, timers, due>>

vars == <<clientVars, db, peer, producedBy, sessions, last>>

\* the client's state as one record; ch collects, while a handler runs, the
\* array states it replaced (a new array always counts as a change for React)
St ==
  [cloudEnabled |-> cloudEnabled, slots |-> slots, courses |-> courses,
   entries |-> entries, form |-> form, theme |-> theme, exportSkin |-> exportSkin,
   showSlotsSetup |-> showSlotsSetup, showCoursesSetup |-> showCoursesSetup,
   authReady |-> authReady, userId |-> userId, profile |-> profile,
   authError |-> authError, cloudBusy |-> cloudBusy, cloudDirty |-> cloudDirty,
   cloudLastSavedAt |-> cloudLastSavedAt, cloudBanner |-> cloudBanner,
   showMasterPanel |-> showMasterPanel, masterRows |-> masterRows,
   hydratingRef |-> hydratingRef, localStorage |-> localStorage,
   uidCount |-> uidCount, calls |-> calls, timers |-> timers, due |-> due,
   ch |-> {}]

Commit(S) ==
  \E T \in {S} :
    /\ cloudEnabled' = T.cloudEnabled
    /\ slots' = T.slots
    /\ courses' = T.courses
    /\ entries' = T.entries
    /\ form' = T.form
    /\ theme' = T.theme
    /\ exportSkin' = T.exportSkin
    /\ showSlotsSetup' = T.showSlotsSetup
    /\ showCoursesSetup' = T.showCoursesSetup
    /\ authReady' = T.authReady
    /\ userId' = T.userId
    /\ profile' = T.profile
    /\ authError' = T.authError
    /\ cloudBusy' = T.cloudBusy
    /\ cloudDirty' = T.cloudDirty
    /\ cloudLastSavedAt' = T.cloudLastSavedAt
    /\ cloudBanner' = T.cloudBanner
    /\ showMasterPanel' = T.showMasterPanel
    /\ masterRows' = T.masterRows
    /\ hydratingRef' = T.hydratingRef
    /\ localStorage' = T.localStorage
    /\ uidCount' = T.uidCount
    /\ calls' = T.calls
    /\ timers' = T.timers
    /\ due' = T.due

\* the client starts in state S
Start(S) ==
  /\ cloudEnabled = S.cloudEnabled
  /\ slots = S.slots
  /\ courses = S.courses
  /\ entries = S.entries
  /\ form = S.form
  /\ theme = S.theme
  /\ exportSkin = S.exportSkin
  /\ showSlotsSetup = S.showSlotsSetup
  /\ showCoursesSetup = S.showCoursesSetup
  /\ authReady = S.authReady
  /\ userId = S.userId
  /\ profile = S.profile
  /\ authError = S.authError
  /\ cloudBusy = S.cloudBusy
  /\ cloudDirty = S.cloudDirty
  /\ cloudLastSavedAt = S.cloudLastSavedAt
  /\ cloudBanner = S.cloudBanner
  /\ showMasterPanel = S.showMasterPanel
  /\ masterRows = S.masterRows
  /\ hydratingRef = S.hydratingRef
  /\ localStorage = S.localStorage
  /\ uidCount = S.uidCount
  /\ calls = S.calls
  /\ timers = S.timers
  /\ due = S.due

NoProfile == [user_id |-> ""]

slotIdsOf(s) == {s[i].id : i \in 1..Len(s)}
courseIdsOf(c) == {c[i].id : i \in 1..Len(c)}

(***************************************************************************)
(* Effects (useEffect), in the order the component declares them.  deps    *)
(* is the set of dependencies that changed in the render being committed. *)
(***************************************************************************)
themeEffect(S, deps) ==
  IF "theme" \in deps
    THEN [S EXCEPT !.localStorage = setItem(@, THEME_KEY, RawText(S.theme))]
    ELSE S

exportSkinEffect(S, deps) ==
  IF "exportSkin" \in deps
    THEN [S EXCEPT !.localStorage = setItem(@, EXPORT_SKIN_KEY, RawText(S.exportSkin))]
    ELSE S

persistSlots(S, deps) ==
  IF deps \cap {"slots", "userId"} # {}
    THEN [S EXCEPT !.localStorage =
            setItem(@, ScopedKey(SLOTS_KEY, S.userId), JSONstringify(SlotsJson(S.slots)))]
    ELSE S

persistCourses(S, deps) ==
  IF deps \cap {"courses", "userId"} # {}
    THEN [S EXCEPT !.localStorage =
            setItem(@, ScopedKey(COURSES_KEY, S.userId), JSONstringify(CoursesJson(S.courses)))]
    ELSE S

persistEntries(S, deps) ==
  IF deps \cap {"entries", "userId"} # {}
    THEN [S EXCEPT !.localStorage =
            setItem(@, ScopedKey(ENTRIES_KEY, S.userId), JSONstringify(EntriesJson(S.entries)))]
    ELSE S

\* R is the state the render saw, S the state the effects update
markDirtyEffect(S, R, deps) ==
  IF deps \cap {"slots", "courses", "entries", "theme", "exportSkin", "userId"} = {} THEN S
  ELSE IF ~R.cloudEnabled \/ R.userId = "" THEN S
  ELSE IF S.hydratingRef THEN S
  ELSE [S EXCEPT !.cloudDirty = TRUE]

\* the cleanup of the cloud-load effect: alive = false in the closure of the
\* load started last (and in the timers that closure set)
loadCleanup(S) ==
  [S EXCEPT !.calls = {IF c.kind = "load" THEN [c EXCEPT !.alive = FALSE] ELSE c : c \in @},
            !.timers = {[t EXCEPT !.alive = FALSE] : t \in @}]

cloudLoadEffect(S, R, deps) ==
  IF "userId" \notin deps THEN S
  ELSE LET C == loadCleanup(S)
       IN IF ~R.cloudEnabled THEN C
          ELSE IF R.userId = ""
            THEN [C EXCEPT !.profile = NoProfile, !.cloudDirty = FALSE,
                           !.cloudLastSavedAt = "", !.cloudBanner = "",
                           !.showMasterPanel = FALSE, !.masterRows = <<>>,
                           !.hydratingRef = TRUE]
          ELSE [C EXCEPT !.cloudBusy = TRUE, !.cloudBanner = "loading", !.authError = "",
                         !.calls = @ \cup {[kind |-> "load", userId |-> R.userId,
                                            alive |-> TRUE, stage |-> "profile"]}]

formSlotEffect(S, R, deps) ==
  IF "slots" \notin deps \/ Len(R.slots) = 0 THEN S
  ELSE IF R.form.slotId \notin slotIdsOf(R.slots)
    THEN [S EXCEPT !.form.slotId = R.slots[1].id]
    ELSE S

formCourseEffect(S, R, deps) ==
  IF "courses" \notin deps THEN S
  ELSE IF Len(R.courses) = 0 THEN [S EXCEPT !.form.courseId = ""]
  ELSE IF R.form.courseId \notin courseIdsOf(R.courses)
    THEN [S EXCEPT !.form.courseId = R.courses[1].id]
    ELSE S

formPreloadEffect(S, R, deps) ==
  LET c == courseMapGet(R.courses, R.form.courseId)
  IN IF "form.courseId" \notin deps \/ R.form.courseId = "" \/ c = NoCourse THEN S
     ELSE [S EXCEPT !.form.room = c.defaultRoom,
                    !.form.professors = c.defaultProfessors,
                    !.form.courseUrl = c.courseUrl]

\* one commit: every effect whose dependencies changed, against the render R
effectsPass(R, deps) ==
  LET s1 == themeEffect(R, deps)
      s2 == exportSkinEffect(s1, deps)
      s3 == persistSlots(s2, deps)
      s4 == persistCourses(s3, deps)
      s5 == persistEntries(s4, deps)
      s6 == markDirtyEffect(s5, R, deps)
      s7 == cloudLoadEffect(s6, R, deps)
      s8 == formSlotEffect(s7, R, deps)
      s9 == formCourseEffect(s8, R, deps)
  IN formPreloadEffect(s9, R, deps)

\* the effects of a render and of the renders their own updates cause (only
\* the form's course can change a dependency again)
runEffects(R, deps) ==
  LET p1 == effectsPass(R, deps)
  IN IF p1.form.courseId # R.form.courseId THEN effectsPass(p1, {"form.courseId"}) ELSE p1

\* the dependencies that differ between the committed state S0 and S1
changedDeps(S0, S1) ==
  S1.ch \cup (IF S1.theme # S0.theme THEN {"theme"} ELSE {})
        \cup (IF S1.exportSkin # S0.exportSkin THEN {"exportSkin"} ELSE {})
        \cup (IF S1.userId # S0.userId THEN {"userId"} ELSE {})
        \cup (IF S1.form.courseId # S0.form.courseId THEN {"form.courseId"} ELSE {})

\* after an event handler: React renders and runs the effects before the next event
afterEvent(S0, S1) == runEffects([S1 EXCEPT !.ch = {}], changedDeps(S0, S1))

\* after the continuation of an await: the effects run later, as a task of their own
afterAsync(S0, S1) == [S1 EXCEPT !.ch = {}, !.due = @ \cup changedDeps(S0, S1)]

(***************************************************************************)
(* Which screen the component renders                                      *)
(***************************************************************************)
Screen(S) ==
  IF S.cloudEnabled /\ ~S.authReady THEN "checking"
  ELSE IF S.cloudEnabled /\ S.userId = "" THEN "login"
  ELSE IF S.showSlotsSetup THEN "slots"
  ELSE IF S.showCoursesSetup THEN "courses"
  ELSE "main"

\* a || b on texts
OrText(a, b) == IF a # <<>> THEN a ELSE b

(***************************************************************************)
(* The schedule form and the entries                                       *)
(***************************************************************************)
setDaySlot(S, day, slotId) ==
  LET existing == slotMapGet(S.entries, day, slotId)
      c == courseMapGet(S.courses, existing.courseId)
  IN IF existing # NoEntry
       THEN [S EXCEPT !.form =
               [courseId |-> existing.courseId, day |-> day, slotId |-> slotId,
                classType |-> existing.classType,
                room |-> OrText(existing.room, IF c = NoCourse THEN <<>> ELSE c.defaultRoom),
                professors |-> OrText(existing.professors,
                                      IF c = NoCourse THEN <<>> ELSE c.defaultProfessors),
                courseUrl |-> OrText(existing.courseUrl,
                                     IF c = NoCourse THEN <<>> ELSE c.courseUrl)]]
       ELSE [S EXCEPT !.form.day = day, !.form.slotId = slotId]

\* onChange of one control of the form: setForm((p) => ({ ...p, [field]: value }))
setFormField(S, field, value) == [S EXCEPT !.form[field] = value]

\* the "clear overrides" button
clearOverrides(S) ==
  LET c == courseMapGet(S.courses, S.form.courseId)
  IN [S EXCEPT !.form.classType = "THEORY",
               !.form.room = IF c = NoCourse THEN <<>> ELSE c.defaultRoom,
               !.form.professors = IF c = NoCourse THEN <<>> ELSE c.defaultProfessors,
               !.form.courseUrl = IF c = NoCourse THEN <<>> ELSE c.courseUrl]

\* upsertEntry without the early return on a declined confirm()
upsertEntryUnasked(S, ok) ==
  IF S.form.courseId = "" \/ Len(S.slots) = 0 THEN S
  ELSE
    LET existing == slotMapGet(S.entries, S.form.day, S.form.slotId)
        fresh == existing = NoEntry
        newEntry ==
          [id |-> IF fresh THEN uid(S.uidCount + 1) ELSE existing.id,
           courseId |-> S.form.courseId,
           day |-> S.form.day,
           slotId |-> S.form.slotId,
           classType |-> S.form.classType,
           room |-> Trim(S.form.room),
           professors |-> Trim(S.form.professors),
           courseUrl |-> Trim(S.form.courseUrl),
           createdAt |-> IF fresh THEN S.uidCount ELSE existing.createdAt]
    IN IF ~fresh
         THEN [S EXCEPT !.entries = MapSeq(@, LAMBDA e : IF e.id = existing.id
                                                          THEN newEntry ELSE e),
                        !.ch = @ \cup {"entries"}]
         ELSE [S EXCEPT !.entries = Append(@, newEntry),
                        !.uidCount = @ + 1,
                        !.ch = @ \cup {"entries"}]

\* ok is the answer to confirm(), asked only when the cell is occupied
upsertEntry(S, ok) ==
  IF S.form.courseId = "" \/ Len(S.slots) = 0 THEN S
  ELSE
    LET existing == slotMapGet(S.entries, S.form.day, S.form.slotId)
        fresh == existing = NoEntry
        newEntry ==
          [id |-> IF fresh THEN uid(S.uidCount + 1) ELSE existing.id,
           courseId |-> S.form.courseId,
           day |-> S.form.day,
           slotId |-> S.form.slotId,
           classType |-> S.form.classType,
           room |-> Trim(S.form.room),
           professors |-> Trim(S.form.professors),
           courseUrl |-> Trim(S.form.courseUrl),
           createdAt |-> IF fresh THEN S.uidCount ELSE existing.createdAt]
    IN IF ~fresh
         THEN IF ~ok THEN S
              ELSE [S EXCEPT !.entries = MapSeq(@, LAMBDA e : IF e.id = existing.id
                                                               THEN newEntry ELSE e),
                             !.ch = @ \cup {"entries"}]
         ELSE [S EXCEPT !.entries = Append(@, newEntry),
                        !.uidCount = @ + 1,
                        !.ch = @ \cup {"entries"}]

removeEntry(S, id) ==
  [S EXCEPT !.entries = SelectSeq(@, LAMBDA e : e.id # id), !.ch = @ \cup {"entries"}]

clearAll(S, ok) ==
  IF ~ok THEN S ELSE [S EXCEPT !.entries = <<>>, !.ch = @ \cup {"entries"}]

(***************************************************************************)
(* Slots (sessions) setup                                                  *)
(***************************************************************************)
addSlot(S) ==
  [S EXCEPT !.slots = Append(@, [id |-> uid(S.uidCount + 1), start |-> T0900,
                                 end |-> T1000, label |-> recomputeLabel(T0900, T1000)]),
            !.uidCount = @ + 1,
            !.ch = @ \cup {"slots"}]

\* patch is a record with some of the fields of a slot
updateSlot(S, id, patch) ==
  [S EXCEPT !.slots = MapSeq(@, LAMBDA x : IF x.id = id
                       THEN [f \in DOMAIN x |-> IF f \in DOMAIN patch THEN patch[f] ELSE x[f]]
                       ELSE x),
            !.ch = @ \cup {"slots"}]

\* onChange of the start input of the row of slot s
onChangeStart(S, s, v) ==
  updateSlot(S, s.id,
    [start |-> v,
     label |-> IF isHHMM(v) /\ isHHMM(s.end) THEN recomputeLabel(v, s.end) ELSE s.label])

\* onChange of the end input of the row of slot s
onChangeEnd(S, s, v) ==
  updateSlot(S, s.id,
    [end |-> v,
     label |-> IF isHHMM(s.start) /\ isHHMM(v) THEN recomputeLabel(s.start, v) ELSE s.label])

\* deleteSlot without the cascade to the entries
deleteSlotOnly(S, id, ok) ==
  IF ~ok THEN S
  ELSE [S EXCEPT !.slots = SelectSeq(@, LAMBDA x : x.id # id),
                 !.ch = @ \cup {"slots", "entries"}]

deleteSlot(S, id, ok) ==
  IF ~ok THEN S
  ELSE [S EXCEPT !.slots = SelectSeq(@, LAMBDA x : x.id # id),
                 !.entries = SelectSeq(@, LAMBDA e : e.slotId # id),
                 !.ch = @ \cup {"slots", "entries"}]

\* the "ready" button of the slots screen
slotsReady(S) ==
  IF Len(S.slots) = 0 THEN S
  ELSE IF \E i \in 1..Len(S.slots) : ~isHHMM(S.slots[i].start) \/ ~isHHMM(S.slots[i].end) THEN S
  ELSE [S EXCEPT !.showSlotsSetup = FALSE,
                 !.showCoursesSetup =
                    Len(loadCoursesFromStorage(S.localStorage, S.uidCount)) = 0]

\* drag reorder: the pointer moved over the row of targetId while draggingSlotId
\* is dragged; insertAfter tells which half of the row it is on
onMove(S, draggingSlotId, targetId, insertAfter) ==
  IF targetId = "" \/ targetId = draggingSlotId THEN S
  ELSE LET from == FindIndex(S.slots, LAMBDA x : x.id = draggingSlotId) - 1
           t == FindIndex(S.slots, LAMBDA x : x.id = targetId) - 1
       IN IF from < 0 \/ t < 0 THEN S
          ELSE [S EXCEPT !.slots = moveItemInsert(@, from, IF insertAfter THEN t + 1 ELSE t),
                         !.ch = @ \cup {"slots"}]

(***************************************************************************)
(* Courses management                                                      *)
(***************************************************************************)
NewCourseTitle == <<"n", "e", "w">>

addCourse(S) ==
  LET c == [id |-> uid(S.uidCount + 1), title |-> NewCourseTitle, defaultRoom |-> <<>>,
            defaultProfessors |-> <<>>, courseUrl |-> <<>>, createdAt |-> S.uidCount]
  IN [S EXCEPT !.courses = Append(@, c),
               !.uidCount = @ + 1,
               !.form.courseId = IF S.form.courseId = "" THEN c.id ELSE @,
               !.ch = @ \cup {"courses"}]

updateCourse(S, id, patch) ==
  [S EXCEPT !.courses = MapSeq(@, LAMBDA c : IF c.id # id THEN c
        ELSE [f \in DOMAIN c |->
                IF f = "title" THEN Trim(IF "title" \in DOMAIN patch THEN patch.title ELSE c.title)
                ELSE IF f \in DOMAIN patch THEN patch[f] ELSE c[f]]),
            !.ch = @ \cup {"courses"}]

\* deleteCourse that drops every entry
deleteCourseAllEntries(S, id, ok) ==
  IF ~ok THEN S
  ELSE LET others == SelectSeq(S.courses, LAMBDA c : c.id # id)
       IN [S EXCEPT !.courses = others,
                    !.entries = <<>>,
                    !.form.courseId = IF S.form.courseId = id
                                        THEN (IF others = <<>> THEN "" ELSE others[1].id)
                                        ELSE @,
                    !.ch = @ \cup {"courses", "entries"}]

deleteCourse(S, id, ok) ==
  IF ~ok THEN S
  ELSE LET others == SelectSeq(S.courses, LAMBDA c : c.id # id)
       IN [S EXCEPT !.courses = others,
                    !.entries = SelectSeq(@, LAMBDA e : e.courseId # id),
                    !.form.courseId = IF S.form.courseId = id
                                        THEN (IF others = <<>> THEN "" ELSE others[1].id)
                                        ELSE @,
                    !.ch = @ \cup {"courses", "entries"}]

\* the "ready" button of the courses screen
coursesReady(S) ==
  IF Len(S.courses) = 0 THEN S
  ELSE IF \E i \in 1..Len(S.courses) : Trim(S.courses[i].title) = <<>> THEN S
  ELSE [S EXCEPT !.showCoursesSetup = FALSE,
                 !.form.courseId = IF @ # "" THEN @ ELSE S.courses[1].id]

toggleTheme(S) == [S EXCEPT !.theme = IF @ = "dark" THEN "light" ELSE "dark"]

setExportSkin(S, skin) == [S EXCEPT !.exportSkin = skin]

(***************************************************************************)
(* Export document and backup import.  An export document is modelled by  *)
(* what the import reads of it: the text inside the element               *)
(* <script id="uniScheduleBackup">, or NoScript when there is none.  The   *)
(* element "</script>" of a text stands for those nine characters in a    *)
(* row, "\\u003c" for the six characters of the JSON escape of "<".        *)
(***************************************************************************)
NoScript == [k |-> "absent"]

escapeLtChar(c) ==
  CASE c = "<" -> "\\u003c" [] c = "</script>" -> "\\u003c/script>" [] OTHER -> c

unescapeChar(c) ==
  CASE c = "\\u003c" -> "<" [] c = "\\u003c/script>" -> "</script>" [] OTHER -> c

RECURSIVE mapChars(_, _)
\* the JSON text of j with every character of its strings rewritten
mapChars(j, how) ==
  CASE j.t = "str" ->
         IF "chars" \in DOMAIN j
           THEN [j EXCEPT !.v = [i \in 1..Len(j.v) |->
                    IF how = "escape" THEN escapeLtChar(j.v[i]) ELSE unescapeChar(j.v[i])]]
           ELSE j
    [] j.t = "arr" -> Arr([i \in 1..Len(j.v) |-> mapChars(j.v[i], how)])
    [] j.t = "obj" -> Obj([f \in DOMAIN j.v |-> mapChars(j.v[f], how)])
    [] OTHER -> j

RECURSIVE hasScriptEnd(_)
\* the JSON text of j contains the characters "</script>"
hasScriptEnd(j) ==
  CASE j.t = "str" -> "chars" \in DOMAIN j /\ \E i \in 1..Len(j.v) : j.v[i] = "</script>"
    [] j.t = "arr" -> \E i \in 1..Len(j.v) : hasScriptEnd(j.v[i])
    [] j.t = "obj" -> \E f \in DOMAIN j.v : hasScriptEnd(j.v[f])
    [] OTHER -> FALSE

\* JSON.stringify(backup).replace(/</g, "\\u003c")
backupJsonOf(backup) == [k |-> "json", j |-> mapChars(backup, "escape")]

buildExportHtml(slots_, courses_, entries_, theme_, skin, now) ==
  LET backup == Obj([app |-> Str("uni-schedule"),
                     version |-> Num(1),
                     exportedAt |-> Num(now),
                     theme |-> Str(theme_),
                     skin |-> Str(skin),
                     data |-> Obj([slots |-> SlotsJson(slots_),
                                   courses |-> CoursesJson(courses_),
                                   entries |-> EntriesJson(entries_)])])
  IN [script |-> backupJsonOf(backup)]

\* script.textContent of the parsed document: the HTML parser ends the element
\* at the first "</script>" of its text
scriptTextContent(file) ==
  IF file.script.k = "json" /\ hasScriptEnd(file.script.j) THEN BadText ELSE file.script

\* JSON.parse of the text of the backup element: the escapes are read back
parseBackup(text) == mapChars(text.j, "unescape")

Truthy(j) ==
  CASE j.t \in {"obj", "arr"} -> TRUE
    [] j.t = "str" -> IF "chars" \in DOMAIN j THEN j.v # <<>> ELSE j.v # ""
    [] j.t = "num" -> j.v # 0
    [] OTHER -> FALSE

\* how far restoreFromHtmlFile gets with this file
restoreStage(file, now) ==
  IF file.script = NoScript THEN "noScript"
  ELSE LET text == scriptTextContent(file)
       IN IF text = RawText("") THEN "empty"
          ELSE IF ~Parses(text) THEN "badJson"
          ELSE LET backup == parseBackup(text)
               IN IF ~Truthy(backup) \/ Field(backup, "app") # Str("uni-schedule")
                     \/ ~Truthy(Field(backup, "data")) THEN "notExport"
                  ELSE IF Len(normalizeSlots(Field(Field(backup, "data"), "slots"))) = 0
                    THEN "noSlots"
                  ELSE "confirm"

\* restoreFromHtmlFile without the confirmation prompt
restoreUnasked(S, file, ok) ==
  LET now == S.uidCount
      stage == restoreStage(file, now)
  IN IF stage \in {"noScript", "empty", "badJson", "notExport"} THEN S
     ELSE
       LET backup == parseBackup(scriptTextContent(file))
           data == Field(backup, "data")
           S1 == IF Field(backup, "theme") \in {Str("light"), Str("dark")}
                   THEN [S EXCEPT !.theme = Field(backup, "theme").v] ELSE S
           S2 == IF Field(backup, "skin") \in {Str("lotr"), Str("default")}
                   THEN [S1 EXCEPT !.exportSkin = Field(backup, "skin").v] ELSE S1
           slotsN == normalizeSlots(Field(data, "slots"))
           coursesN == normalizeCourses(Field(data, "courses"), now)
           entriesN == normalizeEntries(Field(data, "entries"), now)
           entriesFiltered == SelectSeq(entriesN, LAMBDA e :
                                e.slotId \in slotIdsOf(slotsN) /\ e.courseId \in courseIdsOf(coursesN))
       IN IF stage = "noSlots" THEN S2
          ELSE [S2 EXCEPT !.slots = slotsN, !.courses = coursesN,
                          !.entries = entriesFiltered,
                          !.showSlotsSetup = FALSE,
                          !.showCoursesSetup = Len(coursesN) = 0,
                          !.ch = @ \cup {"slots", "courses", "entries"}]

\* restoreFromHtmlFile without the filter on the entries
restoreUnfiltered(S, file, ok) ==
  LET now == S.uidCount
      stage == restoreStage(file, now)
  IN IF stage \in {"noScript", "empty", "badJson", "notExport"} THEN S
     ELSE
       LET backup == parseBackup(scriptTextContent(file))
           data == Field(backup, "data")
           S1 == IF Field(backup, "theme") \in {Str("light"), Str("dark")}
                   THEN [S EXCEPT !.theme = Field(backup, "theme").v] ELSE S
           S2 == IF Field(backup, "skin") \in {Str("lotr"), Str("default")}
                   THEN [S1 EXCEPT !.exportSkin = Field(backup, "skin").v] ELSE S1
           slotsN == normalizeSlots(Field(data, "slots"))
           coursesN == normalizeCourses(Field(data, "courses"), now)
           entriesN == normalizeEntries(Field(data, "entries"), now)
           entriesFiltered == SelectSeq(entriesN, LAMBDA e :
                                e.slotId \in slotIdsOf(slotsN) /\ e.courseId \in courseIdsOf(coursesN))
       IN IF stage = "noSlots" \/ ~ok THEN S2
          ELSE [S2 EXCEPT !.slots = slotsN, !.courses = coursesN,
                          !.entries = entriesN,
                          !.showSlotsSetup = FALSE,
                          !.showCoursesSetup = Len(coursesN) = 0,
                          !.ch = @ \cup {"slots", "courses", "entries"}]

\* ok is the answer to confirm(), asked only when the backup passed the checks
restoreFromHtmlFile(S, file, ok) ==
  LET now == S.uidCount
      stage == restoreStage(file, now)
  IN IF stage \in {"noScript", "empty", "badJson", "notExport"} THEN S
     ELSE
       LET backup == parseBackup(scriptTextContent(file))
           data == Field(backup, "data")
           S1 == IF Field(backup, "theme") \in {Str("light"), Str("dark")}
                   THEN [S EXCEPT !.theme = Field(backup, "theme").v] ELSE S
           S2 == IF Field(backup, "skin") \in {Str("lotr"), Str("default")}
                   THEN [S1 EXCEPT !.exportSkin = Field(backup, "skin").v] ELSE S1
           slotsN == normalizeSlots(Field(data, "slots"))
           coursesN == normalizeCourses(Field(data, "courses"), now)
           entriesN == normalizeEntries(Field(data, "entries"), now)
           entriesFiltered == SelectSeq(entriesN, LAMBDA e :
                                e.slotId \in slotIdsOf(slotsN) /\ e.courseId \in courseIdsOf(coursesN))
       IN IF stage = "noSlots" \/ ~ok THEN S2
          ELSE [S2 EXCEPT !.slots = slotsN, !.courses = coursesN,
                          !.entries = entriesFiltered,
                          !.showSlotsSetup = FALSE,
                          !.showCoursesSetup = Len(coursesN) = 0,
                          !.ch = @ \cup {"slots", "courses", "entries"}]

\* restoreFromHtmlFile raises: one of its property reads (backup.app,
\* backup.data, backup.theme, backup.skin, backup.data.slots) meets null or
\* undefined; the `||` of the check stops at its first true operand
restoreRaises(file, now) ==
  IF restoreStage(file, now) \in {"noScript", "empty", "badJson"} THEN FALSE
  ELSE LET backup == parseBackup(scriptTextContent(file))
       IN IF ~Truthy(backup) THEN FALSE
          ELSE \/ Throws(backup)
               \/ /\ restoreStage(file, now) # "notExport"
                  /\ Throws(Field(backup, "data"))

(***************************************************************************)
(* Construction: the useState initialisers and the effects of the first   *)
(* render                                                                  *)
(***************************************************************************)
AllDeps == {"slots", "courses", "entries", "theme", "exportSkin", "userId", "form.courseId"}

\* the auth/session bootstrap effect
bootstrapEffect(S) ==
  IF ~S.cloudEnabled THEN [S EXCEPT !.authReady = TRUE]
  ELSE [S EXCEPT !.calls = @ \cup {[kind |-> "getSession", alive |-> TRUE]}]

constructApp(ls, enabled, prefersLight) ==
  LET savedTheme == getItem(ls, THEME_KEY)
      savedSkin == getItem(ls, EXPORT_SKIN_KEY)
      s == loadSlotsFromStorage(ls)
      mig == migrateLegacyIfNeeded(ls, s.slots, 0, 0)
      R == [cloudEnabled |-> enabled,
            slots |-> s.slots, courses |-> mig.courses, entries |-> mig.entries,
            form |-> [courseId |-> IF mig.courses = <<>> THEN "" ELSE mig.courses[1].id,
                      day |-> "Mon",
                      slotId |-> IF s.slots = <<>> THEN DEFAULT_SLOTS[1].id ELSE s.slots[1].id,
                      classType |-> "THEORY",
                      room |-> <<>>, professors |-> <<>>, courseUrl |-> <<>>],
            theme |-> IF savedTheme \in {RawText("light"), RawText("dark")} THEN savedTheme.s
                      ELSE IF prefersLight THEN "light" ELSE "dark",
            exportSkin |-> IF savedSkin = RawText("lotr") THEN "lotr" ELSE "default",
            showSlotsSetup |-> s.isFirstTime,
            showCoursesSetup |-> Len(mig.courses) = 0,
            authReady |-> ~enabled, userId |-> "", profile |-> NoProfile,
            authError |-> "", cloudBusy |-> FALSE, cloudDirty |-> FALSE,
            cloudLastSavedAt |-> "", cloudBanner |-> "",
            showMasterPanel |-> FALSE, masterRows |-> <<>>,
            hydratingRef |-> TRUE,
            localStorage |-> mig.ls,
            uidCount |-> mig.n,
            calls |-> {}, timers |-> {}, due |-> {}, ch |-> {}]
  IN bootstrapEffect(runEffects(R, AllDeps))

(***************************************************************************)
(* Inputs the model draws from                                             *)
(***************************************************************************)
EmptyStorage == [x \in {} |-> NoItem]

TxtA == <<"a">>
TxtB == <<"B">>
TxtR == <<"r">>

SavedSlots ==
  << [id |-> "s1", start |-> T0900, end |-> T1100, label |-> recomputeLabel(T0900, T1100)],
     [id |-> "s2", start |-> T1100, end |-> T1300, label |-> recomputeLabel(T1100, T1300)] >>

SavedCourses ==
  << [id |-> "c1", title |-> TxtA, defaultRoom |-> TxtR, defaultProfessors |-> <<>>,
      courseUrl |-> <<>>, createdAt |-> 0],
     [id |-> "c2", title |-> TxtB, defaultRoom |-> <<>>, defaultProfessors |-> <<>>,
      courseUrl |-> <<>>, createdAt |-> 0] >>

SavedEntries ==
  << [id |-> "e1", courseId |-> "c1", day |-> "Mon", slotId |-> "s1", classType |-> "THEORY",
      room |-> <<>>, professors |-> <<>>, courseUrl |-> <<>>, createdAt |-> 0],
     [id |-> "e2", courseId |-> "c2", day |-> "Tue", slotId |-> "s2", classType |-> "LAB",
      room |-> <<>>, professors |-> <<>>, courseUrl |-> <<>>, createdAt |-> 0] >>

\* what an earlier session of the application left in the browser
SavedStorage ==
  setItem(setItem(setItem(EmptyStorage,
    SLOTS_KEY, JSONstringify(SlotsJson(SavedSlots))),
    COURSES_KEY, JSONstringify(CoursesJson(SavedCourses))),
    ENTRIES_KEY, JSONstringify(EntriesJson(SavedEntries)))

InputDays == {"Mon"}
InputRooms == {<<>>, TxtR}
InputTimes == {<<"9">>}
InputEnds == {T1400}
InputTitles == {<<>>, <<"a", " ">>}

(***************************************************************************)
(* The hosted backend (src/SUPABASE_SETUP.md): one profiles row and one    *)
(* schedules row per user, keyed by user_id                                *)
(***************************************************************************)
UserSeq == <<"A", "B">>
Users == Range(UserSeq)
NoRow == [user_id |-> ""]

\* a save that inserts only: a row that exists keeps its data
saveScheduleInsertOnly(d, uId, payload, stamp) ==
  IF d.schedules[uId] # NoRow
    THEN [d EXCEPT !.schedules[uId].updated_at = stamp]
    ELSE [d EXCEPT !.schedules[uId] = [user_id |-> uId, data |-> payload, updated_at |-> stamp]]

\* the row written by saveScheduleToCloud: upsert on conflict user_id, so the
\* whole row is replaced
saveScheduleToCloud(d, uId, payload, stamp) ==
  [d EXCEPT !.schedules[uId] = [user_id |-> uId, data |-> payload, updated_at |-> stamp]]

\* maybeSingle(): the row of the user, or null
loadScheduleFromCloud(d, uId) == d.schedules[uId]

getMyProfile(d, uId) == d.profiles[uId]

listProfilesAsMaster(d) ==
  LET rows == SelectSeq([i \in 1..Len(UserSeq) |-> d.profiles[UserSeq[i]]],
                        LAMBDA r : r # NoProfile)
  IN SortBy(rows, LAMBDA a, b : a.created_at - b.created_at)

\* the row ensureProfile upserts
ensureProfile(d, uId, identifier, stamp) ==
  [d EXCEPT !.profiles[uId] = [user_id |-> uId, username |-> identifier,
                               is_master |-> FALSE, created_at |-> stamp]]

\* new Date().toISOString() on a client whose clock shows n
isoStamp(n) == "t" \o ToString(n)

(***************************************************************************)
(* Cloud session of the client                                             *)
(***************************************************************************)
\* the payload of saveToCloud
cloudPayload(S) ==
  Obj([slots |-> SlotsJson(S.slots), courses |-> CoursesJson(S.courses),
       entries |-> EntriesJson(S.entries), theme |-> Str(S.theme),
       exportSkin |-> Str(S.exportSkin)])

\* the continuation of getSession() in the bootstrap effect; session is the
\* user of the stored session, "" when there is none or the call failed
getSessionDone(S, c, session) ==
  LET S1 == [S EXCEPT !.calls = @ \ {c}]
  IN IF ~c.alive THEN S1 ELSE [S1 EXCEPT !.userId = session, !.authReady = TRUE]

\* the callback given to onAuthStateChange; session is "" for no session
onAuthStateChange(S, session) == [S EXCEPT !.userId = session]

\* pinOk: the PIN of the form is 4 to 12 digits
submitAuth(S, authMode, u, pinOk) ==
  IF ~S.cloudEnabled THEN S
  ELSE IF u = "" THEN [S EXCEPT !.authError = "username"]
  ELSE IF ~pinOk THEN [S EXCEPT !.authError = "pin"]
  ELSE IF authMode = "signup" /\ u \in {"admin", "root"} THEN [S EXCEPT !.authError = "reserved"]
  ELSE [S EXCEPT !.authError = "", !.cloudBusy = TRUE,
                 !.cloudBanner = authMode,
                 !.calls = @ \cup {[kind |-> "auth", mode |-> authMode, user |-> u,
                                    alive |-> TRUE, stage |-> "credentials"]}]

\* submitAuth once cloudSignUp / cloudSignIn settled; error tells whether it threw
submitAuthDone(S, c, error) ==
  [S EXCEPT !.calls = @ \ {c},
            !.authError = IF error THEN "failed" ELSE @,
            !.cloudBusy = FALSE,
            !.cloudBanner = ""]

signOutCloud(S) ==
  IF ~S.cloudEnabled THEN S
  ELSE [S EXCEPT !.calls = @ \cup {[kind |-> "signOut", alive |-> TRUE]}]

HydrateTimer(guarded) == [kind |-> "hydrateOff", guarded |-> guarded, alive |-> TRUE]
BannerTimer(guarded) == [kind |-> "bannerOff", guarded |-> guarded, alive |-> TRUE]

\* a setTimeout callback runs
timerFires(S, t) ==
  LET S1 == [S EXCEPT !.timers = @ \ {t}]
  IN IF t.guarded /\ ~t.alive THEN S1
     ELSE IF t.kind = "hydrateOff" THEN [S1 EXCEPT !.hydratingRef = FALSE]
     ELSE [S1 EXCEPT !.cloudBanner = ""]

\* applyPayload that keeps every normalized entry
applyPayloadUnfiltered(S, payload) ==
  LET now == S.uidCount
      slotsN == normalizeSlots(Field(payload, "slots"))
      coursesN == normalizeCourses(Field(payload, "courses"), now)
      entriesN == normalizeEntries(Field(payload, "entries"), now)
  IN IF Len(slotsN) > 0
       THEN [S EXCEPT !.hydratingRef = TRUE,
                      !.slots = slotsN, !.courses = coursesN, !.entries = entriesN,
                      !.showSlotsSetup = FALSE,
                      !.showCoursesSetup = Len(coursesN) = 0,
                      !.timers = @ \cup {HydrateTimer(FALSE)},
                      !.ch = @ \cup {"slots", "courses", "entries"}]
       ELSE S

applyPayload(S, payload) ==
  LET now == S.uidCount
      slotsN == normalizeSlots(Field(payload, "slots"))
      coursesN == normalizeCourses(Field(payload, "courses"), now)
      entriesN == normalizeEntries(Field(payload, "entries"), now)
      entriesFiltered == SelectSeq(entriesN, LAMBDA e :
                           e.slotId \in slotIdsOf(slotsN) /\ e.courseId \in courseIdsOf(coursesN))
  IN IF Len(slotsN) > 0
       THEN [S EXCEPT !.hydratingRef = TRUE,
                      !.slots = slotsN, !.courses = coursesN, !.entries = entriesFiltered,
                      !.showSlotsSetup = FALSE,
                      !.showCoursesSetup = Len(coursesN) = 0,
                      !.timers = @ \cup {HydrateTimer(FALSE)},
                      !.ch = @ \cup {"slots", "courses", "entries"}]
       ELSE S

\* the finally block of the load, reached with alive = true
loadFinally(S) ==
  [S EXCEPT !.cloudBusy = FALSE,
            !.timers = @ \cup {HydrateTimer(TRUE), BannerTimer(TRUE)}]

\* the load after "await getMyProfile(userId).catch(() => null)"; row is the
\* answer of the backend, failed tells whether the request failed
loadProfileDone(S, c, row, failed) ==
  LET S1 == [S EXCEPT !.calls = @ \ {c}]
  IN IF ~c.alive THEN S1
     ELSE [S1 EXCEPT !.profile = IF failed THEN NoProfile ELSE row,
                     !.calls = @ \cup {[c EXCEPT !.stage = "schedule"]}]

\* the slots/courses/entries cached under the keys of this user
scopedCache(S, uId) ==
  LET slotsRaw == getItem(S.localStorage, ScopedKey(SLOTS_KEY, uId))
      coursesRaw == getItem(S.localStorage, ScopedKey(COURSES_KEY, uId))
      entriesRaw == getItem(S.localStorage, ScopedKey(ENTRIES_KEY, uId))
      parsed(raw) == IF raw = NoItem THEN Arr(<<>>) ELSE JSONparse(raw)
  IN [present |-> {slotsRaw, coursesRaw, entriesRaw} # {NoItem},
      parses |-> \A raw \in {slotsRaw, coursesRaw, entriesRaw} \ {NoItem} : Parses(raw),
      payload |-> Obj([slots |-> parsed(slotsRaw), courses |-> parsed(coursesRaw),
                       entries |-> parsed(entriesRaw)])]

\* the load after "await loadScheduleFromCloud(userId).catch(() => null)"
loadScheduleDone(S, c, row, failed) ==
  LET S1 == [S EXCEPT !.calls = @ \ {c}]
      cloud == IF failed THEN NoRow ELSE row
      payload == cloud.data
      T1 == IF Field(payload, "theme") \in {Str("dark"), Str("light")}
              THEN [S1 EXCEPT !.theme = Field(payload, "theme").v] ELSE S1
      T2 == IF Field(payload, "exportSkin") \in {Str("default"), Str("lotr")}
              THEN [T1 EXCEPT !.exportSkin = Field(payload, "exportSkin").v] ELSE T1
      cache == scopedCache(S1, c.userId)
      L == IF cache.present /\ cache.parses THEN applyPayload(S1, cache.payload) ELSE S1
  IN IF ~c.alive THEN S1
     ELSE IF cloud # NoRow /\ Truthy(payload)
       THEN loadFinally([applyPayload(T2, payload) EXCEPT
                           !.cloudLastSavedAt = cloud.updated_at,
                           !.cloudDirty = FALSE,
                           !.cloudBanner = "loaded"])
     ELSE loadFinally([L EXCEPT !.cloudLastSavedAt = "",
                                !.cloudDirty = FALSE,
                                !.cloudBanner = "nodata"])

saveToCloud(S) ==
  IF ~S.cloudEnabled \/ S.userId = "" THEN S
  ELSE [S EXCEPT !.cloudBusy = TRUE, !.cloudBanner = "saving",
                 !.calls = @ \cup {[kind |-> "save", userId |-> S.userId, alive |-> TRUE,
                                    payload |-> cloudPayload(S),
                                    stamp |-> isoStamp(S.uidCount)]}]

\* saveToCloud once saveScheduleToCloud settled; res is the row it returned
saveToCloudDone(S, c, res, failed) ==
  LET S1 == [S EXCEPT !.calls = @ \ {c}, !.cloudBusy = FALSE,
                      !.timers = @ \cup {BannerTimer(FALSE)}]
  IN IF failed THEN [S1 EXCEPT !.cloudBanner = "saveError"]
     ELSE [S1 EXCEPT !.cloudLastSavedAt = res.updated_at,
                     !.cloudDirty = FALSE,
                     !.cloudBanner = "saved"]

openMaster(S) ==
  IF ~S.cloudEnabled \/ S.profile = NoProfile \/ ~S.profile.is_master THEN S
  ELSE [S EXCEPT !.showMasterPanel = TRUE, !.cloudBusy = TRUE,
                 !.calls = @ \cup {[kind |-> "listProfiles", alive |-> TRUE]}]

openMasterDone(S, c, rows, failed) ==
  [S EXCEPT !.calls = @ \ {c}, !.cloudBusy = FALSE,
            !.masterRows = IF failed THEN @ ELSE rows]

(***************************************************************************)
(* Actions.  A handler of a user event runs with the effects of the        *)
(* previous render flushed; the effects of a render caused by the          *)
(* continuation of an await run later, as the step FlushEffects.           *)
(***************************************************************************)
Collections == {"slots", "courses", "entries"}

\* the operations whose outcome the history variable last records; a step of
\* any other operation leaves "other" there
Recorded ==
  {"upsertEntry", "deleteSlot", "deleteCourse", "restore", "getSession", "authState",
   "loadProfile", "loadSchedule", "save", "saveDone", "auth", "authDone", "masterDone",
   "effects", "restoreFile", "drag"}

Last(op, in) == IF op \in Recorded THEN [op |-> op, in |-> in] ELSE [op |-> "other", in |-> <<>>]

\* a step that starts a session counts
Started(op, in) ==
  IF op \in {"getSession", "authState"} THEN (IF in.session # "" THEN 1 ELSE 0) ELSE 0

Produced(S1) == [k \in Collections |-> IF k \in S1.ch THEN userId ELSE producedBy[k]]

Event(op, in, S1) ==
  /\ due = {}
  /\ Commit(afterEvent(St, S1))
  /\ last' = Last(op, in)
  /\ producedBy' = Produced(S1)
  /\ UNCHANGED <<db, peer, sessions>>

Async(op, in, S1) ==
  /\ Commit(afterAsync(St, S1))
  /\ last' = Last(op, in)
  /\ producedBy' = Produced(S1)
  /\ sessions' = sessions + Started(op, in)
  /\ UNCHANGED peer

FlushEffects ==
  /\ due # {}
  /\ Commit(runEffects([St EXCEPT !.due = {}], due))
  /\ last' = [op |-> "effects", in |-> due]
  /\ UNCHANGED <<db, peer, producedBy, sessions>>

SetDaySlot ==
  \E day \in InputDays, i \in 1..Len(slots) :
    /\ Screen(St) = "main"
    /\ Event("setDaySlot", [day |-> day, slotId |-> slots[i].id],
             setDaySlot(St, day, slots[i].id))

SetFormField ==
  \E field \in {"courseId", "classType"} :
    \E value \in CASE field = "courseId" -> courseIdsOf(courses)
                   [] field = "classType" -> {"THEORY", "LAB"} :
      /\ Screen(St) = "main"
      /\ Event("setForm", [field |-> field], setFormField(St, field, value))

ClearOverrides ==
  /\ Screen(St) = "main"
  /\ Event("clearOverrides", <<>>, clearOverrides(St))

UpsertEntry ==
  \E ok \in BOOLEAN :
    LET existing == slotMapGet(entries, form.day, form.slotId)
    IN /\ Screen(St) = "main"
       /\ existing = NoEntry => ok /\ uidCount < MaxUid
       /\ Event("upsertEntry",
                [ok |-> ok, occupied |-> existing # NoEntry /\ form.courseId # "",
                 form |-> form],
                upsertEntry(St, ok))

RemoveEntry ==
  \E i \in 1..Len(entries) :
    /\ Screen(St) = "main"
    /\ Event("removeEntry", [id |-> entries[i].id], removeEntry(St, entries[i].id))

ClearAll ==
  \E ok \in BOOLEAN :
    /\ Screen(St) = "main"
    /\ Event("clearAll", [ok |-> ok], clearAll(St, ok))

OpenSlotsSetup ==
  /\ Screen(St) = "main"
  /\ Event("openSlotsSetup", <<>>, [St EXCEPT !.showSlotsSetup = TRUE])

OpenCoursesSetup ==
  /\ Screen(St) = "main"
  /\ Event("openCoursesSetup", <<>>, [St EXCEPT !.showCoursesSetup = TRUE])

AddSlot ==
  /\ Screen(St) = "slots"
  /\ uidCount < MaxUid
  /\ Len(slots) < MaxSlots
  /\ Event("addSlot", <<>>, addSlot(St))

ChangeStart ==
  \E i \in 1..Len(slots), v \in InputTimes :
    /\ Screen(St) = "slots"
    /\ Event("changeStart", [id |-> slots[i].id], onChangeStart(St, slots[i], v))

ChangeEnd ==
  \E i \in {Len(slots)}, v \in InputEnds :
    /\ Screen(St) = "slots"
    /\ Event("changeEnd", [id |-> slots[i].id], onChangeEnd(St, slots[i], v))

DeleteSlot ==
  \E i \in 1..Len(slots), ok \in BOOLEAN :
    /\ Screen(St) = "slots"
    /\ Event(IF ok THEN "deleteSlot" ELSE "declined",
             [id |-> slots[i].id, ok |-> ok,
              used |-> \E k \in 1..Len(entries) : entries[k].slotId = slots[i].id],
             deleteSlot(St, slots[i].id, ok))

SlotsReady ==
  /\ Screen(St) = "slots"
  /\ Event("slotsReady", <<>>, slotsReady(St))

OnMove ==
  \E i \in {1}, j \in 1..Len(slots), insertAfter \in BOOLEAN :
    /\ Screen(St) = "slots"
    /\ Len(slots) > 0
    /\ Event("onMove", [id |-> slots[i].id], onMove(St, slots[i].id, slots[j].id, insertAfter))

AddCourse ==
  /\ Screen(St) = "courses"
  /\ uidCount < MaxUid
  /\ Event("addCourse", <<>>, addCourse(St))

UpdateCourse ==
  \E i \in 1..Len(courses), v \in InputTitles :
    /\ Screen(St) = "courses"
    /\ Event("updateCourse", [id |-> courses[i].id], updateCourse(St, courses[i].id, [title |-> v]))

DeleteCourse ==
  \E i \in 1..Len(courses), ok \in BOOLEAN :
    /\ Screen(St) = "courses"
    /\ Event(IF ok THEN "deleteCourse" ELSE "declined",
             [id |-> courses[i].id, ok |-> ok,
              used |-> \E k \in 1..Len(entries) : entries[k].courseId = courses[i].id],
             deleteCourse(St, courses[i].id, ok))

CoursesReady ==
  /\ Screen(St) = "courses"
  /\ Event("coursesReady", <<>>, coursesReady(St))

ToggleTheme ==
  /\ Screen(St) # "checking"
  /\ Event("toggleTheme", <<>>, toggleTheme(St))

SetExportSkin ==
  \E skin \in {"default", "lotr"} :
    /\ Screen(St) = "main"
    /\ skin # exportSkin
    /\ Event("setExportSkin", <<>>, setExportSkin(St, skin))

(***************************************************************************)
(* Export and backup import                                                *)
(***************************************************************************)
NoFile == [script |-> NoScript]

\* a backup edited by hand: two valid entries with distinct ids in one cell
DupEntries ==
  << SavedEntries[1],
     [SavedEntries[2] EXCEPT !.id = "e3", !.day = "Mon", !.slotId = "s1"] >>

DupFile == buildExportHtml(SavedSlots, SavedCourses, DupEntries, "dark", "default", 0)

ImportFiles == {DupFile}

\* the document downloadExportHtml builds from the state S
exportOf(S) == buildExportHtml(S.slots, S.courses, S.entries, S.theme, S.exportSkin, S.uidCount)

\* downloadExportHtml / openExportPreview: the document leaves the application
Export ==
  /\ Screen(St) = "main"
  /\ Event("export", <<>>, St)

\* the user picks a file in the restore input
Restore ==
  \E file \in {exportOf(St)} \cup ImportFiles, ok \in BOOLEAN :
    /\ Screen(St) = "main"
    /\ due = {}
    /\ restoreStage(file, uidCount) # "confirm" => ok
    /\ Async("restore", [stage |-> restoreStage(file, uidCount), ok |-> ok],
             restoreFromHtmlFile(St, file, ok))
    /\ UNCHANGED db

(***************************************************************************)
(* The application without cloud configuration                             *)
(***************************************************************************)
\* the password every account starts with
InitialPin == <<"0", "0", "0", "0">>

NoBackend ==
  [schedules |-> [u \in Users |-> NoRow], profiles |-> [u \in Users |-> NoProfile],
   pins |-> [u \in Users |-> InitialPin]]

NoPeer == [on |-> FALSE]

InitWith(ls, enabled, backend) ==
  /\ Start(constructApp(ls, enabled, FALSE))
  /\ db = backend
  /\ peer = NoPeer
  /\ producedBy = [k \in Collections |-> ""]
  /\ sessions = 0
  /\ last = [op |-> "init", in |-> <<>>]

\* the schedule screen: the form, the entries, export and restore
Init == InitWith(SavedStorage, FALSE, NoBackend)

Next ==
  \/ SetDaySlot \/ SetFormField \/ ClearOverrides \/ UpsertEntry \/ RemoveEntry \/ ClearAll
  \/ Export \/ Restore \/ FlushEffects

Spec == Init /\ [][Next]_vars

\* the sessions setup screen
NextSlots ==
  \/ OpenSlotsSetup \/ AddSlot \/ ChangeStart \/ ChangeEnd \/ DeleteSlot \/ SlotsReady \/ OnMove

SpecSlots == Init /\ [][NextSlots]_vars

\* the courses setup screen
NextCourses ==
  \/ OpenCoursesSetup \/ AddCourse \/ UpdateCourse \/ DeleteCourse \/ CoursesReady
  \/ ToggleTheme \/ SetExportSkin

SpecCourses == Init /\ [][NextCourses]_vars

(***************************************************************************)
(* The application with the cloud configured: one client and the backend   *)
(***************************************************************************)
\* what the browser holds when the user comes back: the schedule of the
\* signed-out days under the plain keys, the cache of user A under the keys of A
CachedSlots == << [SavedSlots[2] EXCEPT !.id = "a1"] >>

CloudStorage ==
  setItem(setItem(setItem(SavedStorage,
    ScopedKey(SLOTS_KEY, "A"), JSONstringify(SlotsJson(CachedSlots))),
    ScopedKey(COURSES_KEY, "A"), JSONstringify(CoursesJson(<<SavedCourses[2]>>))),
    ScopedKey(ENTRIES_KEY, "A"), JSONstringify(EntriesJson(<<>>)))

MasterProfile == [user_id |-> "A", username |-> "A", is_master |-> TRUE, created_at |-> 0]

\* the backend knows user A; A has saved nothing yet
Backend0 == [NoBackend EXCEPT !.profiles["A"] = MasterProfile]

\* A saved a schedule from another device
CloudSlots == << [SavedSlots[1] EXCEPT !.id = "k1"] >>

Backend1 ==
  saveScheduleToCloud(Backend0, "A",
    Obj([slots |-> SlotsJson(CloudSlots), courses |-> CoursesJson(<<SavedCourses[1]>>),
         entries |-> EntriesJson(<<>>), theme |-> Str("light"),
         exportSkin |-> Str("default")]),
    isoStamp(0))

CallsOf(kind) == {c \in calls : c.kind = kind}

\* getSession() answers: the stored session, if any, is that of A
GetSessionDone ==
  \E c \in CallsOf("getSession"), session \in {"", "A"} :
    /\ Async("getSession", [session |-> session], getSessionDone(St, c, session))
    /\ UNCHANGED db

SubmitAuth ==
  \E u \in Users :
    /\ Screen(St) = "login"
    /\ ~cloudBusy
    /\ Event("auth", [user |-> u], submitAuth(St, "signin", u, TRUE))

\* the backend accepts the credentials: the client library stores the session
\* and tells the subscriber, then cloudSignIn goes on to ensureProfile
AuthAccepted ==
  \E c \in CallsOf("auth") :
    /\ c.stage = "credentials"
    /\ sessions < MaxSessions
    /\ Async("authState", [session |-> c.user],
             LET S1 == onAuthStateChange(St, c.user)
             IN [S1 EXCEPT !.calls = (@ \ {c}) \cup {[c EXCEPT !.stage = "ensureProfile"]}])
    /\ UNCHANGED db

\* the backend rejects the credentials or cannot be reached: cloudSignIn throws
AuthRejected ==
  \E c \in CallsOf("auth") :
    /\ c.stage = "credentials"
    /\ Async("authDone", [failed |-> TRUE], submitAuthDone(St, c, TRUE))
    /\ UNCHANGED db

\* the upsert of ensureProfile settles (its error is not looked at) and
\* submitAuth reaches its finally block
AuthProfileEnsured ==
  \E c \in CallsOf("auth"), failed \in BOOLEAN :
    /\ c.stage = "ensureProfile"
    /\ db' = IF failed THEN db ELSE ensureProfile(db, c.user, c.user, uidCount)
    /\ Async("authDone", [failed |-> failed], submitAuthDone(St, c, FALSE))

SignOutCloud ==
  /\ Screen(St) = "main"
  /\ ~cloudBusy
  /\ CallsOf("signOut") = {}
  /\ Event("signOut", <<>>, signOutCloud(St))

\* signOut() of the client library ends the session and tells the subscriber
SignOutDone ==
  \E c \in CallsOf("signOut") :
    /\ Async("authState", [session |-> ""],
             [onAuthStateChange(St, "") EXCEPT !.calls = @ \ {c}])
    /\ UNCHANGED db

LoadProfileDone ==
  \E c \in CallsOf("load"), failed \in BOOLEAN :
    /\ c.stage = "profile"
    /\ Async("loadProfile", [failed |-> failed, alive |-> c.alive, signedOut |-> userId = ""],
             loadProfileDone(St, c, getMyProfile(db, c.userId), failed))
    /\ UNCHANGED db

LoadScheduleDone ==
  \E c \in CallsOf("load"), failed \in BOOLEAN :
    /\ c.stage = "schedule"
    /\ Async("loadSchedule", [failed |-> failed, alive |-> c.alive, signedOut |-> userId = ""],
             loadScheduleDone(St, c, loadScheduleFromCloud(db, c.userId), failed))
    /\ UNCHANGED db

SaveToCloud ==
  /\ Screen(St) = "main"
  /\ cloudDirty /\ ~cloudBusy
  /\ Event("save", <<>>, saveToCloud(St))

\* the upsert of saveScheduleToCloud reaches the backend and saveToCloud goes on
SaveToCloudDone ==
  \E c \in CallsOf("save"), failed \in BOOLEAN :
    /\ db' = IF failed THEN db ELSE saveScheduleToCloud(db, c.userId, c.payload, c.stamp)
    /\ Async("saveDone", [failed |-> failed, by |-> "client", payload |-> c.payload],
             saveToCloudDone(St, c, [updated_at |-> c.stamp], failed))

OpenMaster ==
  /\ Screen(St) = "main"
  /\ ~cloudBusy
  /\ profile # NoProfile
  /\ profile.is_master
  /\ Event("master", <<>>, openMaster(St))

OpenMasterDone ==
  \E c \in CallsOf("listProfiles"), failed \in BOOLEAN :
    /\ Async("masterDone", [failed |-> failed],
             openMasterDone(St, c, listProfilesAsMaster(db), failed))
    /\ UNCHANGED db

TimerFires ==
  \E t \in timers :
    /\ Async("timer", <<>>, timerFires(St, t))
    /\ UNCHANGED db

InitCloud == \E backend \in {Backend0, Backend1} : InitWith(CloudStorage, TRUE, backend)

NextCloud ==
  \/ GetSessionDone \/ SubmitAuth \/ AuthAccepted \/ AuthRejected \/ AuthProfileEnsured
  \/ SignOutCloud \/ SignOutDone
  \/ LoadProfileDone \/ LoadScheduleDone
  \/ TimerFires \/ FlushEffects
  \/ OpenSlotsSetup \/ ChangeStart

SpecCloud == InitCloud /\ [][NextCloud]_vars

(***************************************************************************)
(* Two clients of user A (two devices) and the backend                     *)
(***************************************************************************)
RECURSIVE fireAll(_)
\* every pending timer of S has run
fireAll(S) == IF S.timers = {} THEN S ELSE fireAll(timerFires(S, CHOOSE t \in S.timers : TRUE))

\* the steps of a client from its start to the loaded schedule, each applied
\* to the state the step before left
flushed(S) == runEffects([S EXCEPT !.due = {}], S.due)

sessionFound(S) ==
  afterAsync(S, getSessionDone(S, CHOOSE c \in S.calls : c.kind = "getSession", "A"))

profileLoaded(S, d) ==
  afterAsync(S, loadProfileDone(S, CHOOSE c \in S.calls : c.kind = "load",
                                getMyProfile(d, "A"), FALSE))

scheduleLoaded(S, d) ==
  afterAsync(S, loadScheduleDone(S, CHOOSE c \in S.calls : c.kind = "load",
                                 loadScheduleFromCloud(d, "A"), FALSE))

\* a client that found the session of A at start and has loaded the schedule
\* of A from the backend d
Ready(d) ==
  CHOOSE S6 \in
    {fireAll(S5) : S5 \in
      {flushed(S4) : S4 \in
        {scheduleLoaded(S3, d) : S3 \in
          {profileLoaded(S2, d) : S2 \in
            {flushed(S1) : S1 \in
              {sessionFound(S0) : S0 \in {constructApp(CloudStorage, TRUE, FALSE)}}}}}}} : TRUE

PeerEvent(op, in, P1) ==
  /\ peer # NoPeer
  /\ peer.due = {}
  /\ peer' = afterEvent(peer, P1)
  /\ last' = Last(op, in)
  /\ UNCHANGED <<clientVars, db, producedBy, sessions>>

PeerAsync(op, in, P1) ==
  /\ peer # NoPeer
  /\ peer' = afterAsync(peer, P1)
  /\ last' = Last(op, in)
  /\ UNCHANGED <<clientVars, producedBy, sessions>>

PeerToggleTheme ==
  /\ peer # NoPeer
  /\ PeerEvent("toggleTheme", <<>>, toggleTheme(peer))

PeerSetExportSkin ==
  \E skin \in {"default", "lotr"} :
    /\ peer # NoPeer
    /\ skin # peer.exportSkin
    /\ PeerEvent("setExportSkin", <<>>, setExportSkin(peer, skin))

PeerSaveToCloud ==
  /\ peer # NoPeer
  /\ peer.cloudDirty /\ ~peer.cloudBusy
  /\ PeerEvent("save", <<>>, saveToCloud(peer))

PeerSaveToCloudDone ==
  /\ peer # NoPeer
  /\ \E c \in {x \in peer.calls : x.kind = "save"}, failed \in BOOLEAN :
       /\ db' = IF failed THEN db ELSE saveScheduleToCloud(db, c.userId, c.payload, c.stamp)
       /\ PeerAsync("saveDone", [failed |-> failed, by |-> "peer", payload |-> c.payload],
                    saveToCloudDone(peer, c, [updated_at |-> c.stamp], failed))

PeerTimerFires ==
  /\ peer # NoPeer
  /\ \E t \in peer.timers :
       /\ PeerAsync("timer", <<>>, timerFires(peer, t))
       /\ UNCHANGED db

InitSync ==
  /\ \E R \in {Ready(Backend1)} : Start(R) /\ peer = R
  /\ db = Backend1
  /\ producedBy = [k \in Collections |-> "A"]
  /\ sessions = 1
  /\ last = [op |-> "init", in |-> <<>>]

NextSync ==
  \/ ToggleTheme \/ SaveToCloud \/ SaveToCloudDone
  \/ OpenMaster \/ OpenMasterDone
  \/ TimerFires
  \/ PeerToggleTheme \/ PeerSetExportSkin \/ PeerSaveToCloud \/ PeerSaveToCloudDone
  \/ PeerTimerFires

SpecSync == InitSync /\ [][NextSync]_vars

(***************************************************************************)
(* Backup import: the files a user may pick in the restore input           *)
(***************************************************************************)
BackupOf(data) == [script |-> backupJsonOf(Obj([app |-> Str("uni-schedule"), data |-> data]))]

BadSlotJson == Obj([id |-> Str("s9"), start |-> Txt(<<"9">>), end |-> Txt(T1100)])

BlankCourseJson == Obj([id |-> Str("c9"), title |-> Txt(<<" ">>)])

\* entries of slot s1 and course c1 with every way of not resolving: the slot
\* or the course of the entry is invalid in the backup, or is not in it
OrphanEntries ==
  << SavedEntries[1],
     [SavedEntries[1] EXCEPT !.id = "e4", !.day = "Tue", !.slotId = "s9"],
     [SavedEntries[1] EXCEPT !.id = "e5", !.day = "Wed", !.courseId = "c9"],
     [SavedEntries[1] EXCEPT !.id = "e6", !.day = "Thu", !.slotId = "s2"],
     [SavedEntries[1] EXCEPT !.id = "e7", !.day = "Fri", !.courseId = "c2"],
     [SavedEntries[1] EXCEPT !.id = "e8", !.day = "Sat"],
     [SavedEntries[1] EXCEPT !.id = "e9", !.day = "Fri", !.classType = "LAB"] >>

OrphanFile ==
  BackupOf(Obj([slots |-> Arr(<<SlotJson(SavedSlots[1]), BadSlotJson>>),
                courses |-> Arr(<<CourseJson(SavedCourses[1]), BlankCourseJson>>),
                entries |-> EntriesJson(OrphanEntries)]))

\* a backup with courses and entries but no entry list that resolves
NoCoursesFile ==
  BackupOf(Obj([slots |-> SlotsJson(SavedSlots), entries |-> EntriesJson(SavedEntries)]))

RejectedFiles ==
  { NoFile,
    [script |-> RawText("")],
    [script |-> BadText],
    [script |-> JSONstringify(Null)],
    [script |-> JSONstringify(Num(0))],
    [script |-> JSONstringify(Num(1))],
    [script |-> JSONstringify(Arr(<<>>))],
    [script |-> JSONstringify(Obj([app |-> Str("other"),
                                   data |-> Obj([slots |-> SlotsJson(SavedSlots)])]))],
    [script |-> JSONstringify(Obj([data |-> Obj([slots |-> SlotsJson(SavedSlots)])]))],
    [script |-> JSONstringify(Obj([app |-> Str("uni-schedule")]))],
    BackupOf(Null),
    BackupOf(Num(1)),
    BackupOf(Arr(<<>>)),
    BackupOf(Obj([courses |-> CoursesJson(SavedCourses)])),
    BackupOf(Obj([slots |-> SlotJson(SavedSlots[1])])),
    BackupOf(Obj([slots |-> Arr(<<BadSlotJson, Null, Num(1), Obj([id |-> Str("s1")])>>),
                  courses |-> CoursesJson(SavedCourses),
                  entries |-> EntriesJson(SavedEntries)])) }

BackupFiles == RejectedFiles \cup {OrphanFile, NoCoursesFile, DupFile}

\* the user picks a file in the restore input: any document, not only an
\* export of this application
RestoreFile ==
  \E file \in {exportOf(St)} \cup BackupFiles, ok \in BOOLEAN :
    /\ Screen(St) = "main"
    /\ due = {}
    /\ restoreStage(file, uidCount) # "confirm" => ok
    /\ Async("restoreFile",
             [file |-> file, ok |-> ok, raised |-> restoreRaises(file, uidCount)],
             restoreFromHtmlFile(St, file, ok))
    /\ UNCHANGED db

NextRestore == RestoreFile \/ FlushEffects \/ RemoveEntry \/ ToggleTheme

SpecRestore == Init /\ [][NextRestore]_vars

(***************************************************************************)
(* Drag reorder on the sessions screen of a first run: the default slots   *)
(***************************************************************************)
\* the pointer moves over a row while a slot is dragged
DragSlot ==
  \E i \in 1..Len(slots), j \in 1..Len(slots), insertAfter \in BOOLEAN :
    /\ Screen(St) = "slots"
    /\ Event("drag",
             [id |-> slots[i].id, targetId |-> slots[j].id, insertAfter |-> insertAfter,
              from |-> i - 1, t |-> j - 1],
             onMove(St, slots[i].id, slots[j].id, insertAfter))

InitDrag == InitWith(EmptyStorage, FALSE, NoBackend)

NextDrag == DragSlot \/ DeleteSlot

SpecDrag == InitDrag /\ [][NextDrag]_vars

(***************************************************************************)
(* The list by course: a stored schedule whose entries are in no order,    *)
(* with an entry of a course that is not stored                            *)
(***************************************************************************)
GroupCourses ==
  << SavedCourses[1], SavedCourses[2], [SavedCourses[1] EXCEPT !.id = "c3", !.title = <<"A">>] >>

GroupEntries ==
  << [SavedEntries[1] EXCEPT !.id = "g1", !.courseId = "c2", !.day = "Tue", !.slotId = "s2"],
     [SavedEntries[1] EXCEPT !.id = "g2", !.courseId = "c1", !.day = "Wed", !.slotId = "s1"],
     [SavedEntries[1] EXCEPT !.id = "g3", !.courseId = "c2", !.day = "Mon", !.slotId = "s2"],
     [SavedEntries[1] EXCEPT !.id = "g4", !.courseId = "c1", !.day = "Mon", !.slotId = "s2"],
     [SavedEntries[1] EXCEPT !.id = "g5", !.courseId = "c1", !.day = "Mon", !.slotId = "s1"],
     [SavedEntries[1] EXCEPT !.id = "g6", !.courseId = "c9", !.day = "Mon", !.slotId = "s1"],
     [SavedEntries[1] EXCEPT !.id = "g7", !.courseId = "c3", !.day = "Fri", !.slotId = "s1"] >>

GroupStorage ==
  setItem(setItem(setItem(EmptyStorage,
    SLOTS_KEY, JSONstringify(SlotsJson(SavedSlots))),
    COURSES_KEY, JSONstringify(CoursesJson(GroupCourses))),
    ENTRIES_KEY, JSONstringify(EntriesJson(GroupEntries)))

\* the groups the list view shows (useMemo over entries, courses and slots)
groups == groupByCourse(entries, courses, slots)

InitGroups == InitWith(GroupStorage, FALSE, NoBackend)

NextGroups == RemoveEntry \/ OpenSlotsSetup \/ OnMove \/ SlotsReady

SpecGroups == InitGroups /\ [][NextGroups]_vars

(***************************************************************************)
(* The normalizers on untyped input: what JSON.parse may return from a     *)
(* stored item, a backup or a cloud payload                                *)
(***************************************************************************)
RawElements ==
  { SlotJson(SavedSlots[1]),
    Obj([id |-> Str("s3"), start |-> Txt(T1400), end |-> Txt(T1600), label |-> Num(1)]),
    BadSlotJson,
    Obj([id |-> Num(1), start |-> Txt(T0900), end |-> Txt(T1100)]),
    Obj([id |-> Str(""), start |-> Txt(T0900), end |-> Txt(T1100)]),
    CourseJson(SavedCourses[1]),
    Obj([id |-> Str("c4"), title |-> Txt(<<" ", "a", " ">>)]),
    BlankCourseJson,
    EntryJson(SavedEntries[1]),
    EntryJson([SavedEntries[1] EXCEPT !.id = "e8", !.day = "Sat"]),
    EntryJson([SavedEntries[1] EXCEPT !.id = "e9", !.classType = "SEMINAR"]),
    Obj([id |-> Str("e0"), courseId |-> Str("c1"), day |-> Str("Mon"),
         classType |-> Str("LAB")]),
    Null, Num(1), Str("x"), Arr(<<>>) }

RawInputs ==
  {Null, Undefined, Num(1), Str("x"), SlotJson(SavedSlots[1])}
    \cup {Arr(l) : l \in UNION {[1..n -> RawElements] : n \in 0..MaxRawLen}}

InitNormalize ==
  /\ Start(constructApp(SavedStorage, FALSE, FALSE))
  /\ db = NoBackend
  /\ peer = NoPeer
  /\ producedBy = [k \in Collections |-> ""]
  /\ sessions = 0
  /\ \E raw \in RawInputs : last = [op |-> "raw", in |-> raw]

\* the three normalizers applied to one input
Normalize ==
  /\ last.op = "raw"
  /\ last' = [op |-> "normalize",
              in |-> [raw |-> last.in,
                      slots |-> normalizeSlots(last.in),
                      courses |-> normalizeCourses(last.in, uidCount),
                      entries |-> normalizeEntries(last.in, uidCount),
                      raised |-> normalizeRaises(last.in)]]
  /\ UNCHANGED <<clientVars, db, peer, producedBy, sessions>>

SpecNormalize == InitNormalize /\ [][Normalize]_vars

(***************************************************************************)
(* The reset-pin server function.  A request is [method, caller, body]:    *)
(* caller is the user auth.getUser() finds for the Authorization header    *)
(* ("" when it finds none), body the text of the request.  env tells       *)
(* whether the secrets are set and whether updateUserById fails.           *)
(***************************************************************************)
Response(ok, status) == [ok |-> ok, status |-> status]

\* (x || "").trim() raises when x is truthy and no string
TrimRaises(x) == Truthy(x) /\ x.t # "str"
TrimmedOr(x) == IF Truthy(x) THEN Trim(x.v) ELSE <<>>

\* /^\d{4,12}$/.test(pin)
isPin(pin) == Len(pin) >= 4 /\ Len(pin) <= 12 /\ \A i \in 1..Len(pin) : pin[i] \in Digits

\* profiles.username = username: the rows of the lookup
profilesNamed(d, username) ==
  {u \in Users : d.profiles[u] # NoProfile /\ <<d.profiles[u].username>> = username}

\* the handler that does not look at the caller's profile
resetPinAnyCaller(d, req, env) ==
  IF req.method # "POST" THEN [db |-> d, res |-> Response(FALSE, 405)]
  ELSE IF ~env.secrets THEN [db |-> d, res |-> Response(FALSE, 500)]
  ELSE IF req.caller = "" THEN [db |-> d, res |-> Response(FALSE, 401)]
  ELSE IF ~Parses(req.body) \/ Throws(JSONparse(req.body))
    THEN [db |-> d, res |-> Response(FALSE, 500)]
  ELSE
    LET body == JSONparse(req.body)
        username == TrimmedOr(Field(body, "username"))
        newPin == TrimmedOr(Field(body, "newPin"))
        found == profilesNamed(d, username)
    IN IF TrimRaises(Field(body, "username")) \/ TrimRaises(Field(body, "newPin"))
         THEN [db |-> d, res |-> Response(FALSE, 500)]
       ELSE IF username = <<>> THEN [db |-> d, res |-> Response(FALSE, 400)]
       ELSE IF ~isPin(newPin) THEN [db |-> d, res |-> Response(FALSE, 400)]
       ELSE IF Cardinality(found) # 1 THEN [db |-> d, res |-> Response(FALSE, 404)]
       ELSE IF env.updFails THEN [db |-> d, res |-> Response(FALSE, 400)]
       ELSE [db |-> [d EXCEPT !.pins[CHOOSE u \in found : TRUE] = newPin],
             res |-> Response(TRUE, 200)]

resetPin(d, req, env) ==
  IF req.method # "POST" THEN [db |-> d, res |-> Response(FALSE, 405)]
  ELSE IF ~env.secrets THEN [db |-> d, res |-> Response(FALSE, 500)]
  ELSE IF req.caller = "" THEN [db |-> d, res |-> Response(FALSE, 401)]
  ELSE IF d.profiles[req.caller] = NoProfile \/ ~d.profiles[req.caller].is_master
    THEN [db |-> d, res |-> Response(FALSE, 403)]
  ELSE IF ~Parses(req.body) \/ Throws(JSONparse(req.body))
    THEN [db |-> d, res |-> Response(FALSE, 500)]
  ELSE
    LET body == JSONparse(req.body)
        username == TrimmedOr(Field(body, "username"))
        newPin == TrimmedOr(Field(body, "newPin"))
        found == profilesNamed(d, username)
    IN IF TrimRaises(Field(body, "username")) \/ TrimRaises(Field(body, "newPin"))
         THEN [db |-> d, res |-> Response(FALSE, 500)]
       ELSE IF username = <<>> THEN [db |-> d, res |-> Response(FALSE, 400)]
       ELSE IF ~isPin(newPin) THEN [db |-> d, res |-> Response(FALSE, 400)]
       ELSE IF Cardinality(found) # 1 THEN [db |-> d, res |-> Response(FALSE, 404)]
       ELSE IF env.updFails THEN [db |-> d, res |-> Response(FALSE, 400)]
       ELSE [db |-> [d EXCEPT !.pins[CHOOSE u \in found : TRUE] = newPin],
             res |-> Response(TRUE, 200)]

Pin1234 == <<"1", "2", "3", "4">>

RequestPins ==
  { Txt(Pin1234), Txt(<<" ">> \o Pin1234 \o <<" ">>), Txt(<<"1", "2", "3">>),
    Txt(Pin1234 \o Pin1234 \o Pin1234 \o <<"5">>), Txt(<<"1", "2", "3", "a">>),
    Txt(<<>>), Num(1234) }

RequestBodies ==
  {BadText, JSONstringify(Null), JSONstringify(Obj([newPin |-> Txt(Pin1234)]))}
    \cup {JSONstringify(Obj([username |-> Txt(<<"B">>), newPin |-> pin])) : pin \in RequestPins}
    \cup {JSONstringify(Obj([username |-> name, newPin |-> Txt(Pin1234)])) :
            name \in {Txt(<<"A">>), Txt(<<" ", "B">>), Txt(<<"C">>), Txt(<<" ">>), Num(1)}}
    \cup {JSONstringify(Obj([username |-> Txt(<<"B">>)]))}

Requests == [method : {"POST", "GET"}, caller : Users \cup {""}, body : RequestBodies]

\* two accounts with a profile: A is the master, B is not
BackendTwo ==
  [Backend0 EXCEPT !.profiles["B"] =
     [user_id |-> "B", username |-> "B", is_master |-> FALSE, created_at |-> 0]]

\* a request reaches the function
ResetPinRequest ==
  \E req \in Requests, env \in [secrets : BOOLEAN, updFails : BOOLEAN] :
    /\ db' = resetPin(db, req, env).db
    /\ last' = [op |-> "resetPin",
                in |-> [req |-> req, res |-> resetPin(db, req, env).res]]
    /\ UNCHANGED <<clientVars, peer, producedBy, sessions>>

InitResetPin == InitWith(CloudStorage, TRUE, BackendTwo)

SpecResetPin == InitResetPin /\ [][ResetPinRequest]_vars

(***************************************************************************)
(* Properties                                                              *)
(***************************************************************************)
\* the entries of a list that sit in the cell (day, slotId)
EntriesAt(es, day, slotId) == SelectSeq(es, LAMBDA e : e.day = day /\ e.slotId = slotId)

\* C1: upsertEntry on an occupied cell, with the confirmation declined, leaves
\* the entries list as it was: same entries, same attributes, same order
C1_DeclinedUpsertKeepsEntries ==
  [][(last'.op = "upsertEntry" /\ last'.in.occupied /\ ~last'.in.ok) => entries' = entries]_vars

C1_Witness ==
  /\ last.op = "upsertEntry" /\ last.in.occupied /\ ~last.in.ok
  /\ EntriesAt(entries, last.in.form.day, last.in.form.slotId) # <<>>
  /\ EntriesAt(entries, last.in.form.day, last.in.form.slotId)[1].courseId # last.in.form.courseId

\* C2: after a confirmed upsertEntry on an occupied cell exactly one entry sits
\* in that cell, and it carries courseId, classType, room, professors and
\* courseUrl of the form
C2_ConfirmedUpsertOneEntry ==
  (last.op = "upsertEntry" /\ last.in.occupied /\ last.in.ok) =>
    LET f == last.in.form
        at == EntriesAt(entries, f.day, f.slotId)
    IN /\ Len(at) = 1
       /\ at[1].courseId = f.courseId
       /\ at[1].classType = f.classType
       /\ at[1].room = Trim(f.room)
       /\ at[1].professors = Trim(f.professors)
       /\ at[1].courseUrl = Trim(f.courseUrl)

\* C3: in every reachable state the entries list holds at most one entry per
\* (day, slotId)
C3_OneEntryPerCell ==
  \A i, j \in 1..Len(entries) :
    i # j => ~(entries[i].day = entries[j].day /\ entries[i].slotId = entries[j].slotId)

\* C4: a confirmed deleteSlot(id) leaves no slot with that id and no entry with
\* that slotId, and keeps every other slot and every other entry as it was
C4_DeleteSlotCascade ==
  [][last'.op = "deleteSlot" =>
       LET id == last'.in.id
       IN /\ slots' = SelectSeq(slots, LAMBDA x : x.id # id)
          /\ entries' = SelectSeq(entries, LAMBDA e : e.slotId # id)
          /\ id \notin slotIdsOf(slots')
          /\ \A k \in 1..Len(entries') : entries'[k].slotId # id]_vars

C4_Witness ==
  /\ last.op = "deleteSlot" /\ last.in.used
  /\ slots # <<>>
  /\ entries # <<>>

\* C5: a confirmed deleteCourse(id) removes exactly the entries whose courseId
\* is id, removes that course, and leaves the slots and the other courses as
\* they were
C5_DeleteCourseExact ==
  [][last'.op = "deleteCourse" =>
       LET id == last'.in.id
       IN /\ entries' = SelectSeq(entries, LAMBDA e : e.courseId # id)
          /\ courses' = SelectSeq(courses, LAMBDA c : c.id # id)
          /\ id \notin courseIdsOf(courses')
          /\ slots' = slots]_vars

C5_Witness ==
  /\ last.op = "deleteCourse" /\ last.in.used
  /\ courses # <<>>
  /\ entries # <<>>

\* C6: exporting the state with buildExportHtml and importing the document
\* with restoreFromHtmlFile, the prompt confirmed, gives the same slots and
\* courses, and the entries less those whose slot or course did not come back
C6_RoundTrip ==
  LET R == restoreFromHtmlFile(St, exportOf(St), TRUE)
  IN /\ R.slots = slots
     /\ R.courses = courses
     /\ R.entries = SelectSeq(entries, LAMBDA e :
                      e.slotId \in slotIdsOf(R.slots) /\ e.courseId \in courseIdsOf(R.courses))

KeyOf(k) ==
  CASE k = "slots" -> SLOTS_KEY [] k = "courses" -> COURSES_KEY [] k = "entries" -> ENTRIES_KEY

\* C7: the value cached under the key of an identity X only ever changes to a
\* state of slots/courses/entries that was produced while X was signed in
C7_ScopedKeysOwnData ==
  [][\A X \in Users, k \in Collections :
       getItem(localStorage', ScopedKey(KeyOf(k), X)) # getItem(localStorage, ScopedKey(KeyOf(k), X))
         => producedBy'[k] = X]_vars

\* the backend row of user A holds exactly the payload p
StoredIs(p) == db.schedules["A"] # NoRow /\ db.schedules["A"].data = p

\* C8: when two clients of one user save, the stored document is the whole
\* payload of the save the backend applied last, and a save that is still on
\* its way will be stored whole whatever the other client has saved meanwhile
C8_LastWriteWins ==
  /\ (last.op = "saveDone" /\ ~last.in.failed) => StoredIs(last.in.payload)
  /\ \A c \in {x \in calls \cup (IF peer = NoPeer THEN {} ELSE peer.calls) : x.kind = "save"} :
       saveScheduleToCloud(db, c.userId, c.payload, c.stamp).schedules[c.userId].data = c.payload

\* the peer's save was applied after a save of this client with another payload
C8_Witness ==
  /\ last.op = "saveDone" /\ ~last.in.failed /\ last.in.by = "peer"
  /\ ~cloudDirty /\ cloudBanner = "saved"
  /\ cloudPayload(St) # last.in.payload
  /\ StoredIs(last.in.payload)

\* C9: a cloud load still in flight when the user signs out (userId becomes
\* null) that completes afterwards changes none of slots, courses, entries,
\* theme, export skin, profile, cloudDirty and cloudLastSavedAt
C9_StaleLoadChangesNothing ==
  [][(last'.op \in {"loadProfile", "loadSchedule"} /\ last'.in.signedOut) =>
       UNCHANGED <<slots, courses, entries, theme, exportSkin, profile, cloudDirty,
                   cloudLastSavedAt>>]_vars

\* C10: a cloud operation that fails at the backend (profile fetch, schedule
\* load, save, sign-in, master panel) leaves slots, courses and entries as
\* they were
C10_BackendFailureKeepsSchedule ==
  [][(last'.op \in {"loadProfile", "loadSchedule", "saveDone", "authDone", "masterDone"}
        /\ last'.in.failed) =>
       UNCHANGED <<slots, courses, entries>>]_vars

\* the conditions under which a backup may be imported: the element is there,
\* its text is non-empty valid JSON, the tag is the application's and the
\* backup holds a valid slot
Importable(file) ==
  /\ file.script # NoScript
  /\ file.script # RawText("")
  /\ Parses(scriptTextContent(file))
  /\ LET backup == parseBackup(scriptTextContent(file))
     IN /\ Field(backup, "app") = Str("uni-schedule")
        /\ normalizeSlots(Field(Field(backup, "data"), "slots")) # <<>>

\* C11: restoreFromHtmlFile replaces slots, courses and entries only for an
\* importable backup whose prompt the user confirmed; on every other file, and
\* when the prompt is declined, the three collections stay as they are and no
\* exception escapes.
C11_RestoreOnlyWhenValidAndConfirmed ==
  [][last'.op = "restoreFile" =>
       /\ ~last'.in.raised
       /\ (Importable(last'.in.file) /\ last'.in.ok)
            \/ UNCHANGED <<slots, courses, entries>>
       /\ (Importable(last'.in.file) /\ last'.in.ok) =>
            slots' = normalizeSlots(Field(Field(parseBackup(scriptTextContent(last'.in.file)),
                                                "data"), "slots"))]_vars

\* a confirmed import has replaced the schedule
C11_Witness ==
  /\ last.op = "restoreFile"
  /\ last.in.file = OrphanFile
  /\ last.in.ok
  /\ slots = <<SavedSlots[1]>>
  /\ courses = <<SavedCourses[1]>>

\* C12: after a successful backup import every entry of the store names an
\* imported slot and an imported course, and the entries are the valid entries
\* of the backup that resolve on both, in the backup's order.
C12_ImportDropsOrphans ==
  (last.op = "restoreFile" /\ last.in.ok /\ Importable(last.in.file)) =>
    LET data == Field(parseBackup(scriptTextContent(last.in.file)), "data")
        resolves(e) == e.slotId \in slotIdsOf(slots) /\ e.courseId \in courseIdsOf(courses)
    IN /\ \A k \in 1..Len(entries) : resolves(entries[k])
       /\ entries = SelectSeq(normalizeEntries(Field(data, "entries"), uidCount), resolves)

\* orphans of both kinds were dropped and the resolving entries kept
C12_Witness ==
  /\ last.op = "restoreFile"
  /\ last.in.file = OrphanFile
  /\ last.in.ok
  /\ Len(entries) = 2
  /\ entries[1].id = "e1"
  /\ entries[2].id = "e9"

\* position of the slot with this id in a list of slots, 0 when absent
IndexOfSlot(list, id) == FindIndex(list, LAMBDA x : x.id = id)

\* C13: a drag of one slot onto another returns a permutation of the slots in
\* which the dragged slot sits immediately after the target (pointer on the
\* lower half of the row) or immediately before it (upper half), the other
\* slots keeping their relative order; moving A after C in [A,B,C,D] gives
\* [B,C,A,D].
C13_DragReorder ==
  [][(last'.op = "drag" /\ last'.in.id # last'.in.targetId) =>
       LET d == last'.in.id
           g == last'.in.targetId
           others(list) == SelectSeq(list, LAMBDA x : x.id # d)
       IN /\ Len(slots') = Len(slots)
          /\ Range(slots') = Range(slots)
          /\ IndexOfSlot(slots', d) =
               IndexOfSlot(slots', g) + (IF last'.in.insertAfter THEN 1 ELSE -1)
          /\ others(slots') = others(slots)
          /\ moveItemInsert(<<"A", "B", "C", "D">>, 0, 3) = <<"B", "C", "A", "D">>]_vars

\* the first default slot was dragged from position 0 to after the third
C13_Witness ==
  /\ last.op = "drag"
  /\ last.in.from = 0 /\ last.in.t = 2 /\ last.in.insertAfter
  /\ Len(slots) = 4
  /\ slots[1].id = "11-13" /\ slots[2].id = "14-16"
  /\ slots[3].id = "09-11" /\ slots[4].id = "16-18"

\* a <= b in the order of the sessions of a group: weekday, then place of the slot
SessionLeq(a, b) ==
  \/ dayOrder(a.day) < dayOrder(b.day)
  \/ /\ dayOrder(a.day) = dayOrder(b.day)
     /\ IndexOfSlot(slots, a.slotId) <= IndexOfSlot(slots, b.slotId)

\* C14: groupByCourse gives one group per stored course that has an entry; the
\* sessions of a group are the entries of its course, by weekday and then by
\* the place of their slot in the slots list; the groups come by course title
\* under the title comparison; an entry of no stored course is in no group.
C14_GroupByCourse ==
  LET G == groups
      used == {courses[i].id : i \in {i \in 1..Len(courses) :
                 \E k \in 1..Len(entries) : entries[k].courseId = courses[i].id}}
  IN /\ {G[n].course.id : n \in 1..Len(G)} = used
     /\ Len(G) = Cardinality(used)
     /\ \A n \in 1..Len(G) :
          /\ G[n].course \in Range(courses)
          /\ Range(G[n].sessions) = {e \in Range(entries) : e.courseId = G[n].course.id}
          /\ Len(G[n].sessions) = Cardinality(Range(G[n].sessions))
          /\ \A i, j \in 1..Len(G[n].sessions) :
               i < j => SessionLeq(G[n].sessions[i], G[n].sessions[j])
     /\ \A n, m \in 1..Len(G) :
          n < m => localeCompare(G[n].course.title, G[m].course.title) <= 0
     /\ \A k \in 1..Len(entries) :
          entries[k].courseId \notin courseIdsOf(courses) =>
            \A n \in 1..Len(G) : entries[k] \notin Range(G[n].sessions)

\* after the two slots were swapped by a drag: three groups in title order, the
\* first with three sessions that the entries hold in another order, the later
\* slot of the list after the earlier one on Monday, and an entry of an unknown
\* course left out
C14_Witness ==
  /\ Len(entries) = 7
  /\ slots = <<SavedSlots[2], SavedSlots[1]>>
  /\ Len(groups) = 3
  /\ groups[1].course.id = "c1" /\ groups[2].course.id = "c3" /\ groups[3].course.id = "c2"
  /\ [i \in 1..3 |-> groups[1].sessions[i].id] = <<"g4", "g5", "g2">>
  /\ [i \in 1..2 |-> groups[3].sessions[i].id] = <<"g3", "g1">>

\* the checks of the shape validation on one element of the input
HasId(x, f) == Field(x, f).t = "str" /\ Field(x, f).v # ""
HasTime(x, f) == Field(x, f).t = "str" /\ isHHMM(Field(x, f).v)
PassesSlot(x) == x.t = "obj" /\ HasId(x, "id") /\ HasTime(x, "start") /\ HasTime(x, "end")
PassesCourse(x) ==
  x.t = "obj" /\ HasId(x, "id") /\ Field(x, "title").t = "str" /\ Trim(Field(x, "title").v) # <<>>
PassesEntry(x) ==
  /\ x.t = "obj" /\ HasId(x, "id") /\ HasId(x, "courseId") /\ HasId(x, "slotId")
  /\ Field(x, "day") \in {Str(d) : d \in Range(DAYS)}
  /\ Field(x, "classType") \in {Str("THEORY"), Str("LAB")}

\* the typed record j (as JSON) is the element x: the same value in every
\* field of these that x holds with the type of the field (createdAt a number,
\* the others texts), the title up to trimming, an empty label apart
SameElement(j, x, fields) ==
  \A f \in fields \cap DOMAIN x.v :
    (x.v[f].t = (IF f = "createdAt" THEN "num" ELSE "str") /\ ~(f = "label" /\ x.v[f].v = <<>>)) =>
      IF f = "title" THEN j.v[f].v = Trim(x.v[f].v) ELSE j.v[f] = x.v[f]

\* out holds, in order, the elements of the input that pass
KeepsPassing(out, raw, Passes(_), fields) ==
  LET kept == IF raw.t = "arr" THEN SelectSeq(raw.v, Passes) ELSE <<>>
  IN /\ Len(out) = Len(kept)
     /\ \A k \in 1..Len(out) : SameElement(out[k], kept[k], fields)

\* C15: each normalizer returns, in input order, the elements of the input list
\* that pass its shape validation and drops every other element; an input that
\* is not a list gives the empty list; no input makes a normalizer raise.
C15_NormalizersKeepValid ==
  last.op = "normalize" =>
    /\ ~last.in.raised
    /\ last.in.raw.t # "arr" =>
         last.in.slots = <<>> /\ last.in.courses = <<>> /\ last.in.entries = <<>>
    /\ KeepsPassing(SlotsJson(last.in.slots).v, last.in.raw, PassesSlot,
                    {"id", "start", "end", "label"})
    /\ KeepsPassing(CoursesJson(last.in.courses).v, last.in.raw, PassesCourse,
                    {"id", "title", "defaultRoom", "defaultProfessors", "courseUrl", "createdAt"})
    /\ KeepsPassing(EntriesJson(last.in.entries).v, last.in.raw, PassesEntry,
                    {"id", "courseId", "day", "slotId", "classType", "room", "professors",
                     "courseUrl", "createdAt"})

\* a well-formed course after a course with a blank title: one course returned
C15_Witness ==
  /\ last.op = "normalize"
  /\ last.in.raw = Arr(<<BlankCourseJson, CourseJson(SavedCourses[1])>>)
  /\ last.in.courses = <<SavedCourses[1]>>
  /\ last.in.slots = <<>>

\* C16: in every reachable state of the store the start and the end of every
\* slot are HH:MM times of the 24-hour clock.
C16_SlotTimesHHMM ==
  \A i \in 1..Len(slots) : isHHMM(slots[i].start) /\ isHHMM(slots[i].end)

\* C17: in every reachable state of the store no course has a title that is
\* empty after trimming.
C17_CourseTitlesNonBlank ==
  \A i \in 1..Len(courses) : Trim(courses[i].title) # <<>>

\* the conditions under which reset-pin may change a password, read off the
\* request and the backend before it
MayReset(d, req) ==
  /\ req.method = "POST"
  /\ req.caller \in Users
  /\ d.profiles[req.caller] # NoProfile /\ d.profiles[req.caller].is_master
  /\ Parses(req.body)
  /\ LET body == JSONparse(req.body)
     IN /\ Field(body, "newPin").t = "str" /\ isPin(Trim(Field(body, "newPin").v))
        /\ Field(body, "username").t = "str"
        /\ profilesNamed(d, Trim(Field(body, "username").v)) # {}

\* C18: reset-pin changes a password only when the request is a POST of an
\* authenticated caller whose own profile is a master's, the new PIN is 4 to 12
\* digits and the username names a profile; it then answers ok and the password
\* of that user is the new PIN; on every other path it answers ok = false and
\* no password changes.
C18_ResetPinMasterOnly ==
  [][last'.op = "resetPin" =>
       LET req == last'.in.req
           res == last'.in.res
       IN /\ db'.pins # db.pins => MayReset(db, req)
          /\ ~MayReset(db, req) => ~res.ok
          /\ ~res.ok => db'.pins = db.pins
          /\ res.ok =>
               \E u \in profilesNamed(db, Trim(Field(JSONparse(req.body), "username").v)) :
                 db'.pins = [db.pins EXCEPT ![u] = Trim(Field(JSONparse(req.body), "newPin").v)]
          /\ db'.schedules = db.schedules /\ db'.profiles = db.profiles]_vars

\* the master has reset the password of B
C18_Witness ==
  /\ last.op = "resetPin"
  /\ last.in.req.caller = "A"
  /\ last.in.res.ok
  /\ db.pins["B"] = Pin1234
  /\ db.pins["A"] = InitialPin

\* C19: signing in or signing up creates the profile row of the user when there
\* is none and leaves an existing row as it is (username, is_master,
\* created_at): a master is still a master after signing in again.
C19_ProfileFetchOrCreate ==
  [][/\ \A u \in Users : db.profiles[u] # NoProfile => db'.profiles[u] = db.profiles[u]
     /\ (last'.op = "authDone" /\ ~last'.in.failed) =>
          \A c \in calls \ calls' : c.kind = "auth" => db'.profiles[c.user] # NoProfile]_vars

\* the backend requests of the client that are in flight
RequestsInFlight == {c \in calls : c.kind \in {"auth", "load", "save", "listProfiles"}}

\* C20: within one client session no two backend requests (sign-in or sign-up,
\* profile or schedule load, save, master listing) are in flight at the same
\* time.
C20_OneRequestInFlight == Cardinality(RequestsInFlight) <= 1

\* C21: a schedule load that fails after sign-in shows the cloud load error in
\* the status banner ("error", the banner of the catch block), not the banner
\* of a user without a stored document ("nodata").
C21_LoadFailureBanner ==
  [][(last'.op = "loadSchedule" /\ last'.in.failed /\ last'.in.alive) =>
       cloudBanner' = "error"]_vars

(***************************************************************************)
(* Legacy migration on stored items: what earlier versions of the          *)
(* application may have left under the legacy keys                         *)
(***************************************************************************)
LegacyPadded ==
  Obj([id |-> Str("l1"), title |-> Txt(<<" ", "a">>), day |-> Str("Mon"),
       slotId |-> Str("s1"), room |-> Txt(TxtR)])
LegacyPlain ==
  Obj([id |-> Str("l2"), title |-> Txt(TxtA), day |-> Str("Tue"), slotId |-> Str("s2"),
       classType |-> Str("LAB")])
LegacyOldSlot ==
  Obj([title |-> Txt(TxtB), day |-> Str("Mon"), slot |-> Str("s1")])
LegacyUnknownSlot ==
  Obj([id |-> Str("l4"), title |-> Txt(TxtB), day |-> Str("Mon"), slotId |-> Str("s9"),
       room |-> Txt(TxtR)])
LegacyBadDay ==
  Obj([id |-> Str("l5"), title |-> Txt(TxtA), day |-> Str("Sat"), slotId |-> Str("s1")])

LegacyRecords ==
  {LegacyPadded, LegacyPlain, LegacyOldSlot, LegacyUnknownSlot, LegacyBadDay, Null}

LegacyLists == UNION {[1..n -> LegacyRecords] : n \in 0..MaxRawLen}

\* what getItem may return for the newest legacy key
LegacyItems ==
  {NoItem, BadText, JSONstringify(LegacyPlain)} \cup {JSONstringify(Arr(l)) : l \in LegacyLists}

OlderItems ==
  {NoItem, BadText, JSONstringify(Arr(<<>>)), JSONstringify(Arr(<<LegacyBadDay>>)),
   JSONstringify(Arr(<<LegacyOldSlot, LegacyUnknownSlot>>))}

OldestItems == {NoItem, JSONstringify(Arr(<<LegacyPlain>>))}

\* the current-format items next to them
CurrentItems ==
  { [c |-> NoItem, e |-> NoItem],
    [c |-> JSONstringify(Arr(<<BlankCourseJson>>)), e |-> BadText],
    [c |-> JSONstringify(CoursesJson(SavedCourses)), e |-> NoItem],
    [c |-> NoItem, e |-> JSONstringify(EntriesJson(SavedEntries))],
    [c |-> JSONstringify(Arr(<<BlankCourseJson, CourseJson(SavedCourses[2])>>)),
     e |-> JSONstringify(EntriesJson(SavedEntries))] }

\* storage with the given items; an absent item is not stored
StorageOf(items) ==
  LET present == {k \in DOMAIN items : items[k] # NoItem}
  IN [k \in present |-> items[k]]

LegacyStorages ==
  { StorageOf(
      (SLOTS_KEY :> JSONstringify(SlotsJson(SavedSlots))) @@ (COURSES_KEY :> cur.c)
        @@ (ENTRIES_KEY :> cur.e) @@ (LEGACY_ENTRY_KEYS[1] :> v3)
        @@ (LEGACY_ENTRY_KEYS[2] :> v2) @@ (LEGACY_ENTRY_KEYS[3] :> v1)) :
      cur \in CurrentItems, v3 \in LegacyItems, v2 \in OlderItems, v1 \in OldestItems }

InitMigrate ==
  /\ Start(constructApp(SavedStorage, FALSE, FALSE))
  /\ db = NoBackend
  /\ peer = NoPeer
  /\ producedBy = [k \in Collections |-> ""]
  /\ sessions = 0
  /\ \E ls \in LegacyStorages : last = [op |-> "storage", in |-> ls]

\* migrateLegacyIfNeeded(slots) as the state initializers call it
Migrate ==
  /\ last.op = "storage"
  /\ last' = [op |-> "migrate",
              in |-> [ls |-> last.in,
                      slots |-> loadSlotsFromStorage(last.in).slots,
                      out |-> migrateLegacyIfNeeded(last.in, loadSlotsFromStorage(last.in).slots,
                                                    uidCount, 0)]]
  /\ UNCHANGED <<clientVars, db, peer, producedBy, sessions>>

SpecMigrate == InitMigrate /\ [][Migrate]_vars

\* the call of migrateLegacyIfNeeded the state records
Migrated == last.op = "migrate"

\* the valid elements of a stored current-format item, in order
StoredValid(ls, key, Passes(_)) ==
  IF Parses(getItem(ls, key)) /\ JSONparse(getItem(ls, key)).t = "arr"
    THEN SelectSeq(JSONparse(getItem(ls, key)).v, Passes)
    ELSE <<>>

\* the storage holds a valid course or a valid entry in the current format
HoldsCurrent(ls) ==
  \/ StoredValid(ls, COURSES_KEY, PassesCourse) # <<>>
  \/ StoredValid(ls, ENTRIES_KEY, PassesEntry) # <<>>

\* C22: when the current-format storage holds at least one valid course or
\* one valid entry, migrateLegacyIfNeeded reads no legacy key, leaves the
\* storage as it is and returns the stored valid courses and entries.
C22_NoMigrationWhenCurrent ==
  (Migrated /\ HoldsCurrent(last.in.ls)) =>
     /\ last.in.out.read = <<>>
     /\ last.in.out.ls = last.in.ls
     /\ CoursesJson(last.in.out.courses).v = StoredValid(last.in.ls, COURSES_KEY, PassesCourse)
     /\ EntriesJson(last.in.out.entries).v = StoredValid(last.in.ls, ENTRIES_KEY, PassesEntry)

\* current-format entries are stored next to a legacy array and are returned
C22_Witness ==
  /\ Migrated
  /\ HoldsCurrent(last.in.ls)
  /\ getItem(last.in.ls, LEGACY_ENTRY_KEYS[1]) = JSONstringify(Arr(<<LegacyPadded>>))
  /\ last.in.out.courses = <<>>
  /\ last.in.out.entries = SavedEntries

\* the item stored under a legacy key parses to an array
HoldsArray(ls, key) == Parses(getItem(ls, key)) /\ JSONparse(getItem(ls, key)).t = "arr"

\* position in LEGACY_ENTRY_KEYS of the first key that holds an array, 0 if none
FirstArrayKey(ls) ==
  IF \E i \in 1..Len(LEGACY_ENTRY_KEYS) : HoldsArray(ls, LEGACY_ENTRY_KEYS[i])
    THEN CHOOSE i \in 1..Len(LEGACY_ENTRY_KEYS) :
           /\ HoldsArray(ls, LEGACY_ENTRY_KEYS[i])
           /\ \A j \in 1..(i - 1) : ~HoldsArray(ls, LEGACY_ENTRY_KEYS[j])
    ELSE 0

LegacyTitle(x) == IF Field(x, "title").t = "str" THEN Trim(Field(x, "title").v) ELSE <<>>
LegacySlot(x) ==
  IF Field(x, "slotId").t = "str" THEN Field(x, "slotId").v
  ELSE IF Field(x, "slot").t = "str" THEN Field(x, "slot").v ELSE ""
LegacyText(x, f) == IF Field(x, f).t = "str" THEN Field(x, f).v ELSE <<>>

\* a legacy record the migration accepts
ValidLegacy(x) ==
  /\ x.t = "obj"
  /\ LegacyTitle(x) # <<>>
  /\ Field(x, "day") \in {Str(d) : d \in Range(DAYS)}
  /\ LegacySlot(x) # ""

\* C24: the migration derives exactly one course per distinct trimmed title
\* of the valid legacy records, with the default room, professors and url of
\* the first valid record of that title; the entries are the valid records
\* whose slotId is the id of a configured slot, in order, each referring to
\* the course of its title; the other records give no entry.
C24_OneCoursePerTitle ==
  (Migrated /\ ~HoldsCurrent(last.in.ls) /\ FirstArrayKey(last.in.ls) # 0) =>
     LET out == last.in.out
         data == JSONparse(getItem(last.in.ls, LEGACY_ENTRY_KEYS[FirstArrayKey(last.in.ls)])).v
         valid == SelectSeq(data, ValidLegacy)
         slotIds == {last.in.slots[i].id : i \in 1..Len(last.in.slots)}
         kept == SelectSeq(valid, LAMBDA x : LegacySlot(x) \in slotIds)
         titles == {LegacyTitle(valid[i]) : i \in 1..Len(valid)}
         firstOf(t) == valid[CHOOSE i \in 1..Len(valid) :
                               /\ LegacyTitle(valid[i]) = t
                               /\ \A j \in 1..(i - 1) : LegacyTitle(valid[j]) # t]
     IN /\ {out.courses[i].title : i \in 1..Len(out.courses)} = titles
        /\ Len(out.courses) = Cardinality(titles)
        /\ \A i, j \in 1..Len(out.courses) : out.courses[i].id = out.courses[j].id => i = j
        /\ \A i \in 1..Len(out.courses) :
              /\ out.courses[i].defaultRoom = LegacyText(firstOf(out.courses[i].title), "room")
              /\ out.courses[i].defaultProfessors =
                   LegacyText(firstOf(out.courses[i].title), "professors")
              /\ out.courses[i].courseUrl = LegacyText(firstOf(out.courses[i].title), "courseUrl")
        /\ Len(out.entries) = Len(kept)
        /\ \A i \in 1..Len(out.entries) :
              /\ out.entries[i].slotId = LegacySlot(kept[i])
              /\ out.entries[i].slotId \in slotIds
              /\ out.entries[i].day = Field(kept[i], "day").v
              /\ \E k \in 1..Len(out.courses) :
                    /\ out.courses[k].id = out.entries[i].courseId
                    /\ out.courses[k].title = LegacyTitle(kept[i])

\* two records of one title, the first in a slot that is not configured: one
\* course with the room of the first record, one entry
C24_Witness ==
  /\ Migrated
  /\ getItem(last.in.ls, LEGACY_ENTRY_KEYS[1]) =
       JSONstringify(Arr(<<LegacyUnknownSlot, LegacyOldSlot>>))
  /\ Len(last.in.out.courses) = 1
  /\ last.in.out.courses[1].defaultRoom = TxtR
  /\ Len(last.in.out.entries) = 1
  /\ last.in.out.entries[1].slotId = "s1"
  /\ last.in.out.entries[1].courseId = last.in.out.courses[1].id

\* C25: right after a successful saveToCloud of this client, with no save in
\* flight and cloudDirty false, the document stored for the user is the
\* current local payload (slots, courses, entries, theme, exportSkin).
C25_CleanMeansStored ==
  (/\ last.op = "saveDone" /\ ~last.in.failed /\ last.in.by = "client"
   /\ CallsOf("save") = {}
   /\ ~cloudDirty) => StoredIs(cloudPayload(St))

(***************************************************************************)
(* The cloud client under fair scheduling: the backend answers every       *)
(* request, and the browser runs every pending effect and timer            *)
(***************************************************************************)
\* the client library reports the end of the session (expiry, a sign-out in
\* another tab) to the subscriber of onAuthStateChange
SessionEnded ==
  /\ userId # ""
  /\ Async("authState", [session |-> ""], onAuthStateChange(St, ""))
  /\ UNCHANGED db

NextCloudLive ==
  \/ GetSessionDone \/ SessionEnded
  \/ LoadProfileDone \/ LoadScheduleDone
  \/ TimerFires \/ FlushEffects

FairCloud ==
  /\ WF_vars(GetSessionDone)
  /\ WF_vars(LoadProfileDone)
  /\ WF_vars(LoadScheduleDone)
  /\ WF_vars(TimerFires)
  /\ WF_vars(FlushEffects)

SpecCloudLive == InitCloud /\ [][NextCloudLive]_vars /\ FairCloud

\* C26: cloudBusy always returns to false: whenever it is true, it is false
\* again once the backend has answered the requests in flight.
C26_BusyEnds == cloudBusy ~> ~cloudBusy

\* the load of the signed-in user applied the stored document and everything
\* it left pending has run: no request, no effect and no zero-delay timer is left
LoadSettled ==
  /\ userId # ""
  /\ db.schedules[userId] # NoRow
  /\ cloudLastSavedAt = db.schedules[userId].updated_at
  /\ calls = {} /\ due = {}
  /\ \A t \in timers : t.kind # "hydrateOff"

\* C27: after a cloud load applied a stored payload, without any edit by the
\* user, cloudDirty is false once the pending effects and the zero-delay
\* timers have run, in whatever order they ran.
C27_LoadLeavesClean == LoadSettled => ~cloudDirty

(***************************************************************************)
(* One browser, two users: A is signed in with the stored schedule loaded, *)
(* signs out, and somebody signs in                                        *)
(***************************************************************************)
InitSwitch ==
  /\ Start(Ready(Backend1))
  /\ db = Backend1
  /\ peer = NoPeer
  /\ producedBy = [k \in Collections |-> "A"]
  /\ sessions = 0
  /\ last = [op |-> "init", in |-> <<>>]

NextSwitch ==
  \/ SignOutCloud \/ SignOutDone
  \/ SubmitAuth \/ AuthAccepted \/ AuthRejected \/ AuthProfileEnsured
  \/ LoadProfileDone \/ LoadScheduleDone
  \/ TimerFires \/ FlushEffects

SpecSwitch == InitSwitch /\ [][NextSwitch]_vars

\* the ids of the slots of the document the backend stores for user u
StoredSlotIds(u) ==
  IF db.schedules[u] = NoRow THEN {}
  ELSE slotIdsOf(normalizeSlots(Field(db.schedules[u].data, "slots")))

\* C28: once B, who has no stored document, is signed in after A on the same
\* client and the load has settled, the slots in memory are none of the slots
\* of A's document.
C28_NothingOfA ==
  (/\ userId = "B"
   /\ db.schedules["B"] = NoRow
   /\ calls = {} /\ due = {} /\ timers = {}) =>
     slotIdsOf(slots) \cap StoredSlotIds("A") = {}

(***************************************************************************)
(* The schedule store with every way of changing it: the three screens,    *)
(* backup import, and the cloud load of a restored session                 *)
(***************************************************************************)
\* A saved a schedule with entries, one of them in a slot that is not in it
StoredEntries ==
  << [SavedEntries[1] EXCEPT !.id = "k5", !.slotId = "k1"],
     [SavedEntries[1] EXCEPT !.id = "k6", !.day = "Tue", !.slotId = "s9"] >>

Backend2 ==
  saveScheduleToCloud(Backend0, "A",
    Obj([slots |-> SlotsJson(CloudSlots), courses |-> CoursesJson(<<SavedCourses[1]>>),
         entries |-> EntriesJson(StoredEntries), theme |-> Str("light"),
         exportSkin |-> Str("default")]),
    isoStamp(0))

\* the user picks a backup whose entries do not all resolve
ImportFile ==
  \E file \in {OrphanFile}, ok \in BOOLEAN :
    /\ Screen(St) = "main"
    /\ due = {}
    /\ restoreStage(file, uidCount) # "confirm" => ok
    /\ Async("restoreFile",
             [file |-> file, ok |-> ok, raised |-> restoreRaises(file, uidCount)],
             restoreFromHtmlFile(St, file, ok))
    /\ UNCHANGED db

\* what the signed-out days left in the browser: two slots, a course, an entry
StoreStorage ==
  setItem(setItem(setItem(EmptyStorage,
    SLOTS_KEY, JSONstringify(SlotsJson(SavedSlots))),
    COURSES_KEY, JSONstringify(CoursesJson(<<SavedCourses[1]>>))),
    ENTRIES_KEY, JSONstringify(EntriesJson(<<SavedEntries[1]>>)))

InitStore == InitWith(StoreStorage, TRUE, Backend2)

NextStore ==
  \/ GetSessionDone \/ LoadProfileDone \/ LoadScheduleDone \/ FlushEffects
  \/ SetDaySlot \/ UpsertEntry \/ RemoveEntry \/ ClearAll
  \/ OpenSlotsSetup \/ AddSlot \/ DeleteSlot \/ OnMove \/ SlotsReady
  \/ OpenCoursesSetup \/ AddCourse \/ UpdateCourse \/ DeleteCourse \/ CoursesReady
  \/ ImportFile

SpecStore == InitStore /\ [][NextStore]_vars

\* every entry's slotId is the id of a stored slot and every entry's courseId
\* the id of a stored course
RefIntegrity(S) ==
  \A i \in 1..Len(S.entries) :
    /\ S.entries[i].slotId \in slotIdsOf(S.slots)
    /\ S.entries[i].courseId \in courseIdsOf(S.courses)

C30_RejectedImportKeepsTheme ==
  [][(/\ last'.op = "restoreFile"
      /\ \/ restoreStage(last'.in.file, uidCount) = "noSlots"
         \/ ~last'.in.ok) =>
       UNCHANGED <<theme, exportSkin>>]_vars

====
